---- MODULE Spec2Model ----
(***************************************************************************)
(* Provider adapters of swarmauri-sdk: GroqToolModel, CohereModel and      *)
(* FalAIImgGenModel.  The module holds one state machine per component:    *)
(*   SpecCall   one adapter call (predict / apredict / stream / astream)   *)
(*   SpecBatch  one abatch call over several conversations                 *)
(*   SpecPoll   one generate_image and one agenerate_image call facing the *)
(*              same queue                                                 *)
(*   SpecSeq    one batch call over several conversations                  *)
(***************************************************************************)
EXTENDS Integers, Sequences, FiniteSets, TLC

(***************************************************************************)
(* Bounds of the model.                                                    *)
(***************************************************************************)
MaxCalls == 2        \* tool calls carried by one backend response
MaxLines == 2        \* records delivered by one backend stream
NItems == 3          \* conversations (prompts) handed to abatch
MaxRetries == 2      \* max_retries of the FalAI instance (the field defaults to 60)
MaxConcurrent == 2   \* largest max_concurrent tried (the ceiling C is 1..MaxConcurrent)
MaxHistory == 2      \* longest history handed to CohereModel.predict

(***************************************************************************)
(* Python values.                                                          *)
(***************************************************************************)
NoneV == "None"      \* Python None
NoKey == "NoKey"     \* a key that is absent from a JSON object

VARIABLES
  \* ---- one adapter call (SpecCall) ----
  adapter,          \* "groq" | "cohere" | "idle"
  mode,             \* "predict" | "apredict" | "stream" | "astream"
  toolkit,          \* the toolkit argument: [present, tools]
  history,          \* conversation.history
  pre,              \* conversation.history when the call was made
  pc,               \* position of the call
  resp,             \* the response to the first request, <<>> before it arrives
  err,              \* the exception that left the call, NoneV if none
  invoked,          \* the tool invocations func_call(**func_args) made so far
  requests,         \* the request payloads posted so far
  message_content,  \* stream: the text collected so far
  yielded,          \* stream: the fragments handed to the consumer
  nlines,           \* stream: records read from the backend stream
  stream_usage_data,       \* CohereModel stream: the usage block received last
  \* ---- one abatch call (SpecBatch) ----
  bAdapter,         \* "groq" | "cohere" | "idle"
  max_concurrent,   \* the ceiling C
  semaphore,        \* asyncio.Semaphore._value: free slots
  waiters,          \* tasks queued on the semaphore, FIFO
  tpc,              \* position of each process_conversation task
  fstage,           \* the await each running task is suspended at
  attempts,         \* FalAI: status checks each task has completed
  convs,            \* history of each conversation of the batch
  tresult,          \* what each task returned or raised
  gather,           \* the future abatch awaits: [state, results, error]
  cancelRequested,  \* the caller cancelled abatch
  order,            \* item numbers in the order the tasks ended
  \* ---- one generate_image and one agenerate_image call (SpecPoll) ----
  max_retries,      \* self.max_retries
  script,           \* what the queue answers: [submit, statuses, result]
  poll,             \* the state of each call: [pc, request_id, passes, log, out]
  \* ---- one batch call (SpecSeq) ----
  sAdapter,         \* "groq" | "cohere" | "falai" | "idle"
  sidx,             \* position of the list comprehension: the item being processed
  spc,              \* position of batch
  sconvs,           \* history of each conversation of the batch
  sout,             \* the output list built so far
  slog,             \* the calls of the single-item operation, issued and ended
  serr,             \* the exception that left batch, NoneV if none
  spoll,            \* FalAI: the state of the running generate_image
  \* ---- one construction of an adapter (SpecCtor) ----
  cls,              \* the class that is instantiated
  kwargs,           \* the keyword arguments **data: [name, model_name, api_key]
  environ,          \* os.environ.get("FAL_KEY"), NoKey when it is not set
  cpc,              \* position of the construction
  instance,         \* the fields of self set so far
  cerr,             \* the exception that left the constructor, NoneV if none
  start_environ,    \* FAL_KEY when the process started
  clients,          \* the two HTTP clients of the instance: "none" | "open" | "closed"
  earlier,          \* the constructions made before this one
  \* ---- tasks calling one GroqToolModel on one shared conversation (SpecShare) ----
  conversation,     \* history of the shared conversation
  owner,            \* for each message appended to it, the task that appended it
  task_op,          \* the method each task calls, "none" before the call
  task_pc,          \* position of each task's call
  task_resp         \* the backend response each task's call received

callVars == <<adapter, mode, toolkit, history, pre, pc, resp, err, invoked,
              requests, message_content, yielded, nlines, stream_usage_data>>
batchVars == <<bAdapter, max_concurrent, semaphore, waiters, tpc, fstage, attempts, convs,
               tresult, gather, cancelRequested, order>>
pollVars == <<max_retries, script, poll>>
seqVars == <<sAdapter, sidx, spc, sconvs, sout, slog, serr, spoll>>
ctorVars == <<cls, kwargs, environ, cpc, instance, cerr, start_environ, clients, earlier>>
shareVars == <<conversation, owner, task_op, task_pc, task_resp>>
vars == <<callVars, batchVars, pollVars, seqVars, ctorVars, shareVars>>

\* No adapter is being constructed.
CtorIdle ==
  /\ cls = "idle"
  /\ kwargs = <<>>
  /\ environ = "NoKey"
  /\ cpc = "idle"
  /\ instance = <<>>
  /\ cerr = "None"
  /\ start_environ = "NoKey"
  /\ clients = <<>>
  /\ earlier = <<>>

\* No task is using a shared conversation.
ShareIdle ==
  /\ conversation = <<>>
  /\ owner = <<>>
  /\ task_op = <<>>
  /\ task_pc = <<>>
  /\ task_resp = <<>>

(***************************************************************************)
(* Messages and the conversation (swarmauri.messages, .conversations).     *)
(***************************************************************************)
Message(r, c, n, id, u) ==
  [role |-> r, content |-> c, name |-> n, tool_call_id |-> id, usage |-> u]
HumanMessage(c) == Message("human", c, NoneV, NoneV, <<>>)
SystemMessage(c) == Message("system", c, NoneV, NoneV, <<>>)
AgentMessage(c) == Message("assistant", c, NoneV, NoneV, <<>>)
AgentMessageWithUsage(c, u) == Message("assistant", c, NoneV, NoneV, <<u>>)
FunctionMessage(c, n, id) == Message("tool", c, n, id, <<>>)

add_message(hist, m) == Append(hist, m)

IsPrefix(s, t) == Len(s) <= Len(t) /\ SubSeq(t, 1, Len(s)) = s

Drop(s, n) == SubSeq(s, n + 1, Len(s))

(***************************************************************************)
(* The toolkit and the caller's tools.                                     *)
(***************************************************************************)
NoToolkit == [present |-> FALSE, tools |-> {}]
Toolkit(names) == [present |-> TRUE, tools |-> names]
Toolkits == {NoToolkit, Toolkit({"add"}), Toolkit({"add", "div"})}

\* Toolkit.get_tool_by_name: the tool, or ToolNotFound.
get_tool_by_name(tk, func_name) ==
  IF func_name \in tk.tools THEN [found |-> TRUE, tool |-> func_name]
  ELSE [found |-> FALSE, tool |-> NoneV]

\* json.loads of the argument strings a backend may send.
JsonLoads(s) ==
  CASE s = "{a:4,b:2}" -> [ok |-> TRUE, a |-> 4, b |-> 2]
    [] s = "{a:4,b:0}" -> [ok |-> TRUE, a |-> 4, b |-> 0]
    [] OTHER -> [ok |-> FALSE, a |-> 0, b |-> 0]

\* json.dumps of an integer result.
JsonDumps(v) == ToString(v)

\* The caller's tools: add never raises, div raises on a zero divisor.
FuncCall(tool, args) ==
  CASE tool = "add" -> [raised |-> FALSE, value |-> args.a + args.b]
    [] tool = "div" /\ args.b = 0 -> [raised |-> TRUE, value |-> 0]
    [] OTHER -> [raised |-> FALSE, value |-> args.a \div args.b]

(***************************************************************************)
(* Backend responses of the Groq chat endpoint.                            *)
(***************************************************************************)
ToolCall(i, n, a) == [id |-> "call_" \o ToString(i), name |-> n, arguments |-> a]

CallKinds == {<<"add", "{a:4,b:2}">>, <<"div", "{a:4,b:2}">>, <<"div", "{a:4,b:0}">>,
              <<"ghost", "{a:4,b:2}">>, <<"add", "{a:4">>}

CallLists ==
  UNION {{[i \in 1..n |-> ToolCall(i, k[i][1], k[i][2])] : k \in [1..n -> CallKinds]}
         : n \in 0..MaxCalls}

Contents == {NoKey, NoneV, "hi"}

\* choices[0].message of a 200 response; a 500 response has no body that is read.
GroqResponses ==
  {[status |-> 200, content |-> c, tool_calls |-> tc] : c \in Contents, tc \in CallLists}
  \cup {[status |-> 300, content |-> "hi", tool_calls |-> <<>>],
        [status |-> 500, content |-> NoKey, tool_calls |-> <<>>]}

\* requests' Response.raise_for_status: 4xx and 5xx raise HTTPError.
RaisesForStatus(status) == status >= 400

\* httpx's Response.raise_for_status: every status outside 2xx raises HTTPStatusError.
Httpx_raise_for_status(status) == status < 200 \/ status >= 300

\* predict and stream post with requests, apredict and astream with httpx.
Groq_raise_for_status(m, status) ==
  IF m \in {"apredict", "astream"} THEN Httpx_raise_for_status(status)
  ELSE RaisesForStatus(status)

Groq_status_error(m) == IF m \in {"apredict", "astream"} THEN "HTTPStatusError" ELSE "HTTPError"

(***************************************************************************)
(* GroqToolModel: request payload.                                         *)
(***************************************************************************)
\* message.model_dump(include=message_properties, exclude_none=True)
Groq_format_message(m) ==
  [k \in {f \in {"content", "role", "name", "tool_call_id"} : m[f] # NoneV} |-> m[k]]

Groq_format_messages(messages) ==
  [i \in 1..Len(messages) |-> Groq_format_message(messages[i])]

\* tools: self._schema_convert_tools(toolkit.tools) if toolkit else []
Groq_schema_convert_tools(tk) == IF tk.present THEN tk.tools ELSE {}

\* payload of predict / apredict; tool_choice is left at its default None.
Groq_predict_payload(hist, tk) ==
  [messages |-> Groq_format_messages(hist),
   has_tools |-> TRUE,
   tools |-> Groq_schema_convert_tools(tk),
   tool_choice |-> IF tk.present THEN "auto" ELSE NoneV,
   stream |-> FALSE]

\* first request of stream / astream: tool_choice or "auto"
Groq_stream_payload(hist, tk) ==
  [messages |-> Groq_format_messages(hist),
   has_tools |-> TRUE,
   tools |-> Groq_schema_convert_tools(tk),
   tool_choice |-> "auto",
   stream |-> FALSE]

\* Mutant: the second request still carries tools and tool_choice.
Groq_stream_payload2_keep_tools(hist) ==
  [messages |-> Groq_format_messages(hist),
   has_tools |-> TRUE,
   tools |-> {},
   tool_choice |-> "auto",
   stream |-> TRUE]

\* second request of stream / astream: messages renewed, stream set, tools and
\* tool_choice popped.
Groq_stream_payload2(hist) ==
  [messages |-> Groq_format_messages(hist),
   has_tools |-> FALSE,
   tools |-> {},
   tool_choice |-> NoKey,
   stream |-> TRUE]

(***************************************************************************)
(* GroqToolModel: the tool-call loop.  A loop state is                     *)
(* [history, invoked, err]; err # NoneV means the loop was left by raise.  *)
(***************************************************************************)
LoopState(h, inv, e) == [history |-> h, invoked |-> inv, err |-> e]

\* Mutant: a failing lookup or invocation is caught and the call skipped.
ToolCallStep_swallow(st, tool_call, tk) ==
  LET func_name == tool_call.name
      func_call == get_tool_by_name(tk, func_name)
      func_args == JsonLoads(tool_call.arguments)
      func_result == FuncCall(func_call.tool, func_args)
      called == Append(st.invoked, [id |-> tool_call.id, name |-> func_name,
                                    arguments |-> tool_call.arguments])
  IN  IF ~tk.present THEN LoopState(st.history, st.invoked, "AttributeError")
      ELSE IF ~func_call.found THEN LoopState(st.history, st.invoked, NoneV)
      ELSE IF ~func_args.ok THEN LoopState(st.history, st.invoked, "JSONDecodeError")
      ELSE IF func_result.raised THEN LoopState(st.history, called, NoneV)
      ELSE LoopState(
             add_message(st.history,
                         FunctionMessage(JsonDumps(func_result.value), func_name,
                                         tool_call.id)),
             called, NoneV)

\* One iteration of "for tool_call in tool_calls".
ToolCallStep(st, tool_call, tk) ==
  LET func_name == tool_call.name
      func_call == get_tool_by_name(tk, func_name)
      func_args == JsonLoads(tool_call.arguments)
      func_result == FuncCall(func_call.tool, func_args)
      called == Append(st.invoked, [id |-> tool_call.id, name |-> func_name,
                                    arguments |-> tool_call.arguments])
  IN  IF ~tk.present THEN LoopState(st.history, st.invoked, "AttributeError")
      ELSE IF ~func_call.found THEN LoopState(st.history, st.invoked, "ToolNotFound")
      ELSE IF ~func_args.ok THEN LoopState(st.history, st.invoked, "JSONDecodeError")
      ELSE IF func_result.raised THEN LoopState(st.history, called, "ToolError")
      ELSE LoopState(
             add_message(st.history,
                         FunctionMessage(JsonDumps(func_result.value), func_name,
                                         tool_call.id)),
             called, NoneV)

\* Mutant: the calls are answered last to first.
RECURSIVE ToolCallLoop_reversed(_, _, _)
ToolCallLoop_reversed(st, tool_calls, tk) ==
  IF tool_calls = <<>> \/ st.err # NoneV THEN st
  ELSE ToolCallLoop_reversed(ToolCallStep(st, tool_calls[Len(tool_calls)], tk),
                             SubSeq(tool_calls, 1, Len(tool_calls) - 1), tk)

RECURSIVE ToolCallLoop(_, _, _)
ToolCallLoop(st, tool_calls, tk) ==
  IF tool_calls = <<>> \/ st.err # NoneV THEN st
  ELSE ToolCallLoop(ToolCallStep(st, Head(tool_calls), tk), Tail(tool_calls), tk)

\* Mutant: the reply text is appended only when it is not null.
AppendAgentContent_nonnull(hist, tool_response) ==
  IF tool_response.content # NoKey /\ tool_response.content # NoneV
  THEN add_message(hist, AgentMessage(tool_response.content))
  ELSE hist

\* if "content" in message: conversation.add_message(AgentMessage(content=...))
AppendAgentContent(hist, tool_response) ==
  IF tool_response.content # NoKey
  THEN add_message(hist, AgentMessage(tool_response.content))
  ELSE hist

\* Mutant: a failing loop takes back what it appended.
Groq_tool_response_rollback(hist, tool_response, tk) ==
  LET out == ToolCallLoop(LoopState(AppendAgentContent(hist, tool_response), <<>>, NoneV),
                          tool_response.tool_calls, tk)
  IN  IF out.err # NoneV THEN LoopState(hist, out.invoked, out.err) ELSE out

\* Everything predict does with a parsed response.
Groq_tool_response(hist, tool_response, tk) ==
  ToolCallLoop(LoopState(AppendAgentContent(hist, tool_response), <<>>, NoneV),
               tool_response.tool_calls, tk)

(***************************************************************************)
(* GroqToolModel.stream / astream: the records of the second response.     *)
(***************************************************************************)
StreamLines == {"", "data: [DONE]", "data: {delta:{}}", "data: {delta:{role:assistant}}",
                "data: {delta:{content:a}}", "data: {delta:{content:b}}"}

\* line.replace('data: ', '') followed by json.loads: what the record parses to.
\*   blank      the line is empty, nothing is parsed
\*   malformed  json.loads raises JSONDecodeError
\*   nodelta    the chunk's delta is empty (falsy)
\*   nocontent  the delta is not empty and has no "content" key
\*   content    the delta carries a text fragment
ParseLine(line) ==
  CASE line = "" -> [kind |-> "blank", content |-> ""]
    [] line = "data: {delta:{}}" -> [kind |-> "nodelta", content |-> ""]
    [] line = "data: {delta:{role:assistant}}" -> [kind |-> "nocontent", content |-> ""]
    [] line = "data: {delta:{content:a}}" -> [kind |-> "content", content |-> "a"]
    [] line = "data: {delta:{content:b}}" -> [kind |-> "content", content |-> "b"]
    [] OTHER -> [kind |-> "malformed", content |-> ""]

(***************************************************************************)
(* CohereModel: request payload, usage record and responses.               *)
(***************************************************************************)
\* Mutant: the branches that keep earlier turns are tried before the plain
\* human branch, so that they can be taken.
RECURSIVE Cohere_format_loop_keep_turns(_, _)
Cohere_format_loop_keep_turns(messages, acc) ==
  IF messages = <<>> THEN acc
  ELSE LET msg == Head(messages)
           next ==
             IF msg.role = "system" THEN [acc EXCEPT !.system_message = msg.content]
             ELSE IF msg.role = "assistant" /\ Len(acc.chat_history) > 0
               THEN [acc EXCEPT !.chat_history[Len(acc.chat_history)].text = msg.content]
             ELSE IF msg.role = "human" /\ acc.user_message # msg.content
               THEN [acc EXCEPT !.user_message = msg.content,
                                !.chat_history =
                       Append(@, [user_name |-> "Human", message |-> msg.content,
                                  text |-> ""])]
             ELSE IF msg.role = "human" THEN [acc EXCEPT !.user_message = msg.content]
             ELSE acc
       IN  Cohere_format_loop_keep_turns(Tail(messages), next)

RECURSIVE Cohere_format_loop(_, _)
Cohere_format_loop(messages, acc) ==
  IF messages = <<>> THEN acc
  ELSE LET msg == Head(messages)
           next ==
             IF msg.role = "system" THEN [acc EXCEPT !.system_message = msg.content]
             ELSE IF msg.role = "human" THEN [acc EXCEPT !.user_message = msg.content]
             ELSE IF msg.role = "assistant" /\ Len(acc.chat_history) > 0
               THEN [acc EXCEPT !.chat_history[Len(acc.chat_history)].text = msg.content]
             ELSE IF msg.role = "human" /\ acc.user_message # msg.content
               THEN [acc EXCEPT !.chat_history =
                       Append(@, [user_name |-> "Human", message |-> msg.content,
                                  text |-> ""])]
             ELSE acc
       IN  Cohere_format_loop(Tail(messages), next)

Cohere_format_messages(messages) ==
  LET r == Cohere_format_loop(messages,
             [chat_history |-> <<>>, system_message |-> NoneV, user_message |-> NoneV])
  IN  [r EXCEPT !.chat_history = SelectSeq(@, LAMBDA h : h.text # "")]

Falsy(v) == v = NoneV \/ v = ""

Cohere_payload(hist, stream) ==
  LET f == Cohere_format_messages(hist)
      message == IF Falsy(f.user_message)
                 THEN (IF hist # <<>> THEN hist[Len(hist)].content ELSE "")
                 ELSE f.user_message
  IN  [message |-> message,
       chat_history |-> f.chat_history,
       preamble |-> IF Falsy(f.system_message) THEN NoKey ELSE f.system_message,
       stream |-> stream]

DictGet(d, k, default) == IF k \in DOMAIN d THEN d[k] ELSE default

\* Mutant: the total time leaves the completion time out.
Cohere_prepare_usage_data_prompt_only(usage_data, prompt_time, completion_time) ==
  LET input_tokens == DictGet(usage_data, "input_tokens", 0)
      output_tokens == DictGet(usage_data, "output_tokens", 0)
  IN  [prompt_tokens |-> input_tokens,
       completion_tokens |-> output_tokens,
       total_tokens |-> input_tokens + output_tokens,
       prompt_time |-> prompt_time,
       completion_time |-> completion_time,
       total_time |-> prompt_time]

\* Mutant: a total sent by the backend is taken over.
Cohere_prepare_usage_data_trusting(usage_data, prompt_time, completion_time) ==
  LET input_tokens == DictGet(usage_data, "input_tokens", 0)
      output_tokens == DictGet(usage_data, "output_tokens", 0)
  IN  [prompt_tokens |-> input_tokens,
       completion_tokens |-> output_tokens,
       total_tokens |-> DictGet(usage_data, "total_tokens", input_tokens + output_tokens),
       prompt_time |-> prompt_time,
       completion_time |-> completion_time,
       total_time |-> prompt_time + completion_time]

\* UsageData(...) built from the backend's usage block and the two timers.
Cohere_prepare_usage_data(usage_data, prompt_time, completion_time) ==
  LET total_time == prompt_time + completion_time
      input_tokens == DictGet(usage_data, "input_tokens", 0)
      output_tokens == DictGet(usage_data, "output_tokens", 0)
      total_tokens == input_tokens + output_tokens
  IN  [prompt_tokens |-> input_tokens,
       completion_tokens |-> output_tokens,
       total_tokens |-> total_tokens,
       prompt_time |-> prompt_time,
       completion_time |-> completion_time,
       total_time |-> total_time]

EmptyDict == [k \in {} |-> 0]
UsageBlocks == {EmptyDict,
                [input_tokens |-> 0, output_tokens |-> 0],
                [input_tokens |-> 2],
                [output_tokens |-> 3],
                [input_tokens |-> 2, output_tokens |-> 3, total_tokens |-> 9]}
Durations == {0, 1}

\* data of a Cohere reply: text (absent in a malformed body) and the optional usage
\* block, with the duration the prompt timer measured.
CohereResponses ==
  {[status |-> s, text |-> t, usage |-> u, prompt_time |-> d]
     : s \in {200, 201}, t \in {NoKey, "hi"}, u \in UsageBlocks, d \in Durations}
  \cup {[status |-> 300, text |-> "hi", usage |-> EmptyDict, prompt_time |-> 0],
        [status |-> 500, text |-> NoKey, usage |-> EmptyDict, prompt_time |-> 0]}

\* predict / apredict after the status check: data["text"], usage, add_message.
Cohere_reply(hist, data) ==
  IF data.text = NoKey THEN LoopState(hist, <<>>, "KeyError")
  ELSE LoopState(
         add_message(hist,
           AgentMessageWithUsage(data.text,
             Cohere_prepare_usage_data(data.usage, data.prompt_time, 0))),
         <<>>, NoneV)

(***************************************************************************)
(* SpecCall: one call of one adapter method on one conversation.           *)
(*   pc: "called"   the method was called (a generator: created)           *)
(*       "wait1"    the first request is posted, no response yet           *)
(*       "wait2"    stream: the second request is posted                   *)
(*       "reading"  stream: iterating the response lines                   *)
(*       "atyield"  stream: suspended at yield                             *)
(*       "returned" the call returned (a generator: exhausted)             *)
(*       "raised"   an exception left the call                             *)
(*       "closed"   stream: the consumer closed the generator              *)
(***************************************************************************)
InitialHistories == {<<>>, <<SystemMessage("s"), HumanMessage("q")>>}

\* The histories handed to CohereModel.predict: every sequence of at most
\* MaxHistory of these messages.
CohereMessages ==
  {SystemMessage("s"), SystemMessage("t"), HumanMessage("q"), HumanMessage("r"),
   HumanMessage(""), AgentMessage("a")}

CohereHistories == UNION {[1..n -> CohereMessages] : n \in 0..MaxHistory}

\* No generate_image / agenerate_image call is under way.
PollIdle ==
  /\ max_retries = 0
  /\ script = <<>>
  /\ poll = <<>>

\* No batch call is under way.
SeqIdle ==
  /\ sAdapter = "idle"
  /\ sidx = 0
  /\ spc = "idle"
  /\ sconvs = <<>>
  /\ sout = <<>>
  /\ slog = <<>>
  /\ serr = NoneV
  /\ spoll = <<>>

BatchIdle ==
  /\ bAdapter = "idle"
  /\ max_concurrent = 0
  /\ semaphore = 0
  /\ waiters = <<>>
  /\ tpc = <<>>
  /\ fstage = <<>>
  /\ attempts = <<>>
  /\ convs = <<>>
  /\ tresult = <<>>
  /\ gather = [state |-> "idle", results |-> <<>>, error |-> NoneV]
  /\ cancelRequested = FALSE
  /\ order = <<>>

CallInit ==
  /\ adapter \in {"groq", "cohere"}
  /\ mode \in IF adapter = "groq" THEN {"predict", "apredict", "stream", "astream"}
                ELSE {"predict", "apredict", "stream", "astream"}
  /\ toolkit \in IF adapter = "groq" THEN Toolkits ELSE {NoToolkit}
  /\ history \in IF adapter = "cohere" /\ mode = "predict" THEN CohereHistories
                  ELSE InitialHistories
  /\ pre = history
  /\ pc = "called"
  /\ resp = <<>>
  /\ err = NoneV
  /\ invoked = <<>>
  /\ requests = <<>>
  /\ message_content = ""
  /\ yielded = <<>>
  /\ nlines = 0
  /\ stream_usage_data = EmptyDict

\* The call is left by raise: nothing but pc, err and the response log changes.
Raise(e) ==
  /\ pc' = "raised"
  /\ err' = e

\* ---- GroqToolModel.predict / apredict ----
Groq_post(m, payload) ==
  /\ adapter = "groq" /\ mode = m /\ pc = "called"
  /\ requests' = Append(requests, payload)
  /\ pc' = "wait1"
  /\ UNCHANGED <<batchVars, pollVars, seqVars, ctorVars, shareVars, stream_usage_data, adapter, mode, toolkit, history, pre, resp, err, invoked,
                 message_content, yielded, nlines>>

\* Mutant: the assistant message is appended before the status is checked.
Groq_first_response_append_first(m, r, after) ==
  /\ adapter = "groq" /\ mode = m /\ pc = "wait1"
  /\ resp' = Append(resp, r)
  /\ IF Groq_raise_for_status(m, r.status)
     THEN /\ Raise(Groq_status_error(m))
          /\ history' = add_message(history, AgentMessage(""))
          /\ UNCHANGED <<invoked, requests>>
     ELSE LET out == Groq_tool_response(history, r, toolkit)
          IN  /\ history' = out.history
              /\ invoked' = out.invoked
              /\ err' = out.err
              /\ IF out.err # NoneV
                 THEN pc' = "raised" /\ UNCHANGED requests
                 ELSE IF after = "returned"
                 THEN pc' = "returned" /\ UNCHANGED requests
                 ELSE /\ pc' = "wait2"
                      /\ requests' = Append(requests, Groq_stream_payload2(out.history))
  /\ UNCHANGED <<batchVars, pollVars, seqVars, ctorVars, shareVars, stream_usage_data, adapter, mode, toolkit, pre, message_content, yielded, nlines>>

\* raise_for_status, response.json(), the assistant message and the tool-call loop.
Groq_first_response(m, r, after) ==
  /\ adapter = "groq" /\ mode = m /\ pc = "wait1"
  /\ resp' = Append(resp, r)
  /\ IF Groq_raise_for_status(m, r.status)
     THEN /\ Raise(Groq_status_error(m))
          /\ UNCHANGED <<history, invoked, requests>>
     ELSE LET out == Groq_tool_response(history, r, toolkit)
          IN  /\ history' = out.history
              /\ invoked' = out.invoked
              /\ err' = out.err
              /\ IF out.err # NoneV
                 THEN pc' = "raised" /\ UNCHANGED requests
                 ELSE IF after = "returned"
                 THEN pc' = "returned" /\ UNCHANGED requests
                 ELSE /\ pc' = "wait2"
                      /\ requests' = Append(requests, Groq_stream_payload2(out.history))
  /\ UNCHANGED <<batchVars, pollVars, seqVars, ctorVars, shareVars, stream_usage_data, adapter, mode, toolkit, pre, message_content, yielded, nlines>>

Groq_predict_request == Groq_post("predict", Groq_predict_payload(history, toolkit))
Groq_predict_response == \E r \in GroqResponses : Groq_first_response("predict", r, "returned")

Groq_apredict_request == Groq_post("apredict", Groq_predict_payload(history, toolkit))
Groq_apredict_response == \E r \in GroqResponses : Groq_first_response("apredict", r, "returned")

\* ---- GroqToolModel.stream / astream ----
Groq_stream_second_response(m, status) ==
  /\ adapter = "groq" /\ mode = m /\ pc = "wait2"
  /\ IF Groq_raise_for_status(m, status)
     THEN Raise(Groq_status_error(m)) /\ UNCHANGED message_content
     ELSE pc' = "reading" /\ message_content' = "" /\ UNCHANGED err
  /\ UNCHANGED <<batchVars, pollVars, seqVars, ctorVars, shareVars, stream_usage_data, adapter, mode, toolkit, history, pre, resp, invoked, requests,
                 yielded, nlines>>

\* Mutant: the newest fragment is put in front of the collected text.
Groq_stream_line_prepend(m, line) ==
  /\ adapter = "groq" /\ mode = m /\ pc = "reading"
  /\ nlines < MaxLines
  /\ nlines' = nlines + 1
  /\ resp' = Append(resp, [status |-> 200, line |-> line])
  /\ LET chunk == ParseLine(line)
     IN  CASE chunk.kind = "content" ->
                /\ message_content' = chunk.content \o message_content
                /\ yielded' = Append(yielded, chunk.content)
                /\ pc' = "atyield"
                /\ UNCHANGED err
           [] chunk.kind = "nocontent" ->
                /\ Raise("KeyError")
                /\ UNCHANGED <<message_content, yielded>>
           [] OTHER -> UNCHANGED <<message_content, yielded, pc, err>>
  /\ UNCHANGED <<batchVars, pollVars, seqVars, ctorVars, shareVars, stream_usage_data, adapter, mode, toolkit, history, pre, invoked, requests>>

\* One pass of "for line in response.iter_lines()".
Groq_stream_line(m, line) ==
  /\ adapter = "groq" /\ mode = m /\ pc = "reading"
  /\ nlines < MaxLines
  /\ nlines' = nlines + 1
  /\ resp' = Append(resp, [status |-> 200, line |-> line])
  /\ LET chunk == ParseLine(line)
     IN  CASE chunk.kind = "content" ->
                /\ message_content' = message_content \o chunk.content
                /\ yielded' = Append(yielded, chunk.content)
                /\ pc' = "atyield"
                /\ UNCHANGED err
           [] chunk.kind = "nocontent" ->
                /\ Raise("KeyError")
                /\ UNCHANGED <<message_content, yielded>>
           [] OTHER -> UNCHANGED <<message_content, yielded, pc, err>>
  /\ UNCHANGED <<batchVars, pollVars, seqVars, ctorVars, shareVars, stream_usage_data, adapter, mode, toolkit, history, pre, invoked, requests>>

\* The consumer asks for the next fragment.
Groq_stream_resume(m) ==
  /\ adapter = "groq" /\ mode = m /\ pc = "atyield"
  /\ pc' = "reading"
  /\ UNCHANGED <<batchVars, pollVars, seqVars, ctorVars, shareVars, stream_usage_data, adapter, mode, toolkit, history, pre, resp, err, invoked, requests,
                 message_content, yielded, nlines>>

\* Mutant: the streamed text takes the place of the newest message.
Groq_stream_end_replace(m) ==
  /\ adapter = "groq" /\ mode = m /\ pc = "reading"
  /\ history' = IF history = <<>> THEN add_message(history, AgentMessage(message_content))
                ELSE [history EXCEPT ![Len(history)] = AgentMessage(message_content)]
  /\ pc' = "returned"
  /\ UNCHANGED <<batchVars, pollVars, seqVars, ctorVars, shareVars, stream_usage_data, adapter, mode, toolkit, pre, resp, err, invoked, requests,
                 message_content, yielded, nlines>>

\* Mutant: a stream without text appends nothing.
Groq_stream_end_nonempty(m) ==
  /\ adapter = "groq" /\ mode = m /\ pc = "reading"
  /\ history' = IF message_content = "" THEN history
                ELSE add_message(history, AgentMessage(message_content))
  /\ pc' = "returned"
  /\ UNCHANGED <<batchVars, pollVars, seqVars, ctorVars, shareVars, stream_usage_data, adapter, mode, toolkit, pre, resp, err, invoked, requests,
                 message_content, yielded, nlines>>

\* The lines are exhausted: conversation.add_message(AgentMessage(message_content)).
Groq_stream_end(m) ==
  /\ adapter = "groq" /\ mode = m /\ pc = "reading"
  /\ history' = add_message(history, AgentMessage(message_content))
  /\ pc' = "returned"
  /\ UNCHANGED <<batchVars, pollVars, seqVars, ctorVars, shareVars, stream_usage_data, adapter, mode, toolkit, pre, resp, err, invoked, requests,
                 message_content, yielded, nlines>>

\* Mutant: closing the generator flushes the text collected so far.
Groq_stream_close_flush(m) ==
  /\ adapter = "groq" /\ mode = m /\ pc = "atyield"
  /\ history' = add_message(history, AgentMessage(message_content))
  /\ pc' = "closed"
  /\ UNCHANGED <<batchVars, pollVars, seqVars, ctorVars, shareVars, stream_usage_data, adapter, mode, toolkit, pre, resp, err, invoked, requests,
                 message_content, yielded, nlines>>

\* The consumer drops the stream while it is suspended at yield.
Groq_stream_close(m) ==
  /\ adapter = "groq" /\ mode = m /\ pc = "atyield"
  /\ pc' = "closed"
  /\ UNCHANGED <<batchVars, pollVars, seqVars, ctorVars, shareVars, stream_usage_data, adapter, mode, toolkit, history, pre, resp, err, invoked, requests,
                 message_content, yielded, nlines>>

Groq_stream_request == Groq_post("stream", Groq_stream_payload(history, toolkit))
Groq_stream_response == \E r \in GroqResponses : Groq_first_response("stream", r, "wait2")
Groq_stream_response2 == \E s \in {200, 300, 500} : Groq_stream_second_response("stream", s)
Groq_stream_next_line == \E l \in StreamLines : Groq_stream_line("stream", l)
Groq_stream_next == Groq_stream_resume("stream")
Groq_stream_exhausted == Groq_stream_end("stream")
Groq_stream_closed == Groq_stream_close("stream")

Groq_astream_request == Groq_post("astream", Groq_stream_payload(history, toolkit))
Groq_astream_response == \E r \in GroqResponses : Groq_first_response("astream", r, "wait2")
Groq_astream_response2 == \E s \in {200, 300, 500} : Groq_stream_second_response("astream", s)
Groq_astream_next_line == \E l \in StreamLines : Groq_stream_line("astream", l)
Groq_astream_next == Groq_stream_resume("astream")
Groq_astream_exhausted == Groq_stream_end("astream")
Groq_astream_closed == Groq_stream_close("astream")

\* ---- CohereModel.predict / apredict ----
Cohere_post(m) ==
  /\ adapter = "cohere" /\ mode = m /\ pc = "called"
  /\ requests' = Append(requests, Cohere_payload(history, FALSE))
  /\ pc' = "wait1"
  /\ UNCHANGED <<batchVars, pollVars, seqVars, ctorVars, shareVars, stream_usage_data, adapter, mode, toolkit, history, pre, resp, err, invoked,
                 message_content, yielded, nlines>>

Cohere_response(m, data, rejected, e) ==
  /\ adapter = "cohere" /\ mode = m /\ pc = "wait1"
  /\ resp' = Append(resp, data)
  /\ IF rejected
     THEN Raise(e) /\ UNCHANGED history
     ELSE LET out == Cohere_reply(history, data)
          IN  /\ history' = out.history
              /\ err' = out.err
              /\ pc' = IF out.err # NoneV THEN "raised" ELSE "returned"
  /\ UNCHANGED <<batchVars, pollVars, seqVars, ctorVars, shareVars, stream_usage_data, adapter, mode, toolkit, pre, invoked, requests, message_content,
                 yielded, nlines>>

Cohere_predict_request == Cohere_post("predict")
\* response.raise_for_status()
Cohere_predict_response ==
  \E d \in CohereResponses :
    Cohere_response("predict", d, RaisesForStatus(d.status), "HTTPError")

Cohere_apredict_request == Cohere_post("apredict")
\* if response.status != 200: raise Exception(...)
Cohere_apredict_response ==
  \E d \in CohereResponses :
    Cohere_response("apredict", d, d.status # 200, "Exception")

\* ---- CohereModel.stream / astream ----
\* The records a Cohere stream may deliver.
CohereStreamLines ==
  {"", "garbage", "{event:start}", "{text:a}", "{text:b}", "{usage:{}}",
   "{usage:{input_tokens:2}}",
   "{usage:{input_tokens:2,output_tokens:3,total_tokens:9}}"}

\* json.loads(line.decode("utf-8")) and the two membership tests on the chunk.
Cohere_parse_line(line) ==
  CASE line = "{text:a}" -> [kind |-> "text", text |-> "a", usage |-> EmptyDict]
    [] line = "{text:b}" -> [kind |-> "text", text |-> "b", usage |-> EmptyDict]
    [] line = "{usage:{}}" -> [kind |-> "usage", text |-> "", usage |-> EmptyDict]
    [] line = "{usage:{input_tokens:2}}" ->
         [kind |-> "usage", text |-> "", usage |-> [input_tokens |-> 2]]
    [] line = "{usage:{input_tokens:2,output_tokens:3,total_tokens:9}}" ->
         [kind |-> "usage", text |-> "",
          usage |-> [input_tokens |-> 2, output_tokens |-> 3, total_tokens |-> 9]]
    [] line = "{event:start}" -> [kind |-> "other", text |-> "", usage |-> EmptyDict]
    [] OTHER -> [kind |-> "malformed", text |-> "", usage |-> EmptyDict]

\* "if line:".  requests.iter_lines hands an empty record over as b"", which is
\* falsy; aiohttp's response.content keeps the line end, so the same record is
\* b"\n", which is truthy and goes to json.loads.
Cohere_line_truthy(m, line) == IF m = "stream" THEN line # "" ELSE TRUE

\* The generator runs to its first request: payload with "stream": True, post.
Cohere_stream_post(m) ==
  /\ adapter = "cohere" /\ mode = m /\ pc = "called"
  /\ requests' = Append(requests, Cohere_payload(history, TRUE))
  /\ pc' = "wait1"
  /\ UNCHANGED <<batchVars, pollVars, seqVars, ctorVars, shareVars, stream_usage_data, adapter, mode, toolkit, history, pre, resp, err,
                 invoked, message_content, yielded, nlines>>

\* The response head arrives: the status check, then collected_content = [] and
\* usage_data = {} are what the loop starts from.
Cohere_stream_head(m, status, rejected, e) ==
  /\ adapter = "cohere" /\ mode = m /\ pc = "wait1"
  /\ resp' = Append(resp, [status |-> status, line |-> NoKey])
  /\ IF rejected THEN Raise(e) ELSE pc' = "reading" /\ UNCHANGED err
  /\ UNCHANGED <<batchVars, pollVars, seqVars, ctorVars, shareVars, stream_usage_data, adapter, mode, toolkit, history, pre, invoked,
                 requests, message_content, yielded, nlines>>

\* One pass of the loop over the response lines.
Cohere_stream_line(m, line) ==
  /\ adapter = "cohere" /\ mode = m /\ pc = "reading"
  /\ nlines < MaxLines
  /\ nlines' = nlines + 1
  /\ resp' = Append(resp, [status |-> 200, line |-> line])
  /\ LET chunk == Cohere_parse_line(line)
     IN  IF ~Cohere_line_truthy(m, line)
           THEN UNCHANGED <<message_content, yielded, stream_usage_data, pc, err>>
         ELSE CASE chunk.kind = "malformed" ->
                     /\ Raise("JSONDecodeError")
                     /\ UNCHANGED <<message_content, yielded, stream_usage_data>>
                [] chunk.kind = "text" ->
                     /\ message_content' = message_content \o chunk.text
                     /\ yielded' = Append(yielded, chunk.text)
                     /\ pc' = "atyield"
                     /\ UNCHANGED <<stream_usage_data, err>>
                [] chunk.kind = "usage" ->
                     /\ stream_usage_data' = chunk.usage
                     /\ UNCHANGED <<message_content, yielded, pc, err>>
                [] OTHER -> UNCHANGED <<message_content, yielded, stream_usage_data, pc, err>>
  /\ UNCHANGED <<batchVars, pollVars, seqVars, ctorVars, shareVars, adapter, mode, toolkit, history, pre, invoked, requests>>

\* The consumer asks for the next fragment.
Cohere_stream_resume(m) ==
  /\ adapter = "cohere" /\ mode = m /\ pc = "atyield"
  /\ pc' = "reading"
  /\ UNCHANGED <<batchVars, pollVars, seqVars, ctorVars, shareVars, stream_usage_data, adapter, mode, toolkit, history, pre, resp, err,
                 invoked, requests, message_content, yielded, nlines>>

\* The lines are exhausted: "".join(collected_content), the usage record from the
\* two timers (the prompt timer's block encloses the completion timer's) and
\* conversation.add_message.
Cohere_stream_end(m) ==
  /\ adapter = "cohere" /\ mode = m /\ pc = "reading"
  /\ \E prompt_time \in Durations, completion_time \in Durations :
       /\ completion_time <= prompt_time
       /\ history' = add_message(history,
            AgentMessageWithUsage(message_content,
              Cohere_prepare_usage_data(stream_usage_data, prompt_time, completion_time)))
  /\ pc' = "returned"
  /\ UNCHANGED <<batchVars, pollVars, seqVars, ctorVars, shareVars, stream_usage_data, adapter, mode, toolkit, pre, resp, err, invoked,
                 requests, message_content, yielded, nlines>>

\* The consumer drops the generator while it is suspended at yield.
Cohere_stream_close(m) ==
  /\ adapter = "cohere" /\ mode = m /\ pc = "atyield"
  /\ pc' = "closed"
  /\ UNCHANGED <<batchVars, pollVars, seqVars, ctorVars, shareVars, stream_usage_data, adapter, mode, toolkit, history, pre, resp, err,
                 invoked, requests, message_content, yielded, nlines>>

Cohere_stream_request == Cohere_stream_post("stream")
\* response.raise_for_status()
Cohere_stream_response ==
  \E s \in {200, 201, 300, 500} : Cohere_stream_head("stream", s, RaisesForStatus(s), "HTTPError")
Cohere_stream_next_line == \E l \in CohereStreamLines : Cohere_stream_line("stream", l)
Cohere_stream_next == Cohere_stream_resume("stream")
Cohere_stream_exhausted == Cohere_stream_end("stream")
Cohere_stream_closed == Cohere_stream_close("stream")

Cohere_astream_request == Cohere_stream_post("astream")
\* if response.status != 200: raise Exception(...)
Cohere_astream_response ==
  \E s \in {200, 201, 300, 500} : Cohere_stream_head("astream", s, s # 200, "Exception")
Cohere_astream_next_line == \E l \in CohereStreamLines : Cohere_stream_line("astream", l)
Cohere_astream_next == Cohere_stream_resume("astream")
Cohere_astream_exhausted == Cohere_stream_end("astream")
Cohere_astream_closed == Cohere_stream_close("astream")

CallNext ==
  \/ Groq_predict_request \/ Groq_predict_response
  \/ Groq_apredict_request \/ Groq_apredict_response
  \/ Groq_stream_request \/ Groq_stream_response \/ Groq_stream_response2
  \/ Groq_stream_next_line \/ Groq_stream_next \/ Groq_stream_exhausted
  \/ Groq_stream_closed
  \/ Groq_astream_request \/ Groq_astream_response \/ Groq_astream_response2
  \/ Groq_astream_next_line \/ Groq_astream_next \/ Groq_astream_exhausted
  \/ Groq_astream_closed
  \/ Cohere_predict_request \/ Cohere_predict_response
  \/ Cohere_apredict_request \/ Cohere_apredict_response
  \/ Cohere_stream_request \/ Cohere_stream_response \/ Cohere_stream_next_line
  \/ Cohere_stream_next \/ Cohere_stream_exhausted \/ Cohere_stream_closed
  \/ Cohere_astream_request \/ Cohere_astream_response \/ Cohere_astream_next_line
  \/ Cohere_astream_next \/ Cohere_astream_exhausted \/ Cohere_astream_closed

InitCall == CallInit /\ BatchIdle /\ PollIdle /\ SeqIdle /\ CtorIdle /\ ShareIdle
NextCall == CallNext
SpecCall == InitCall /\ [][NextCall]_vars

(***************************************************************************)
(* SpecBatch: one abatch call.  abatch builds asyncio.Semaphore(C), one    *)
(* process_conversation coroutine per conversation, and awaits             *)
(* asyncio.gather.                                                 *)
(*   tpc[i]: "created"   the task exists and has not run yet               *)
(*           "waiting"   suspended in semaphore.acquire()                  *)
(*           "running"   inside "async with semaphore", apredict awaits    *)
(*                       the response to its request                       *)
(*           "done"      process_conversation returned                     *)
(*           "raised"    process_conversation was left by an exception     *)
(*           "cancelled" CancelledError was delivered to the task          *)
(***************************************************************************)
Items == 1..NItems

CallIdle ==
  /\ adapter = "idle"
  /\ mode = "idle"
  /\ toolkit = NoToolkit
  /\ history = <<>>
  /\ pre = <<>>
  /\ pc = "idle"
  /\ resp = <<>>
  /\ err = NoneV
  /\ invoked = <<>>
  /\ requests = <<>>
  /\ message_content = ""
  /\ yielded = <<>>
  /\ nlines = 0
  /\ stream_usage_data = EmptyDict

BatchToolkit == Toolkit({"add"})

\* What each item's backend may answer.
BatchGroqResponses ==
  {[status |-> 200, content |-> "hi", tool_calls |-> <<>>],
   [status |-> 200, content |-> NoneV,
    tool_calls |-> <<ToolCall(1, "add", "{a:4,b:2}"), ToolCall(2, "ghost", "{a:4,b:2}")>>],
   [status |-> 500, content |-> NoKey, tool_calls |-> <<>>]}

BatchCohereResponses ==
  {[status |-> 200, text |-> "hi", usage |-> EmptyDict, prompt_time |-> 1],
   [status |-> 500, text |-> NoKey, usage |-> EmptyDict, prompt_time |-> 0]}

\* self.apredict(conv, ...) once its response r is there: [history, invoked, err].
Groq_apredict_outcome(hist, r, tk) ==
  IF Httpx_raise_for_status(r.status) THEN LoopState(hist, <<>>, "HTTPStatusError")
  ELSE Groq_tool_response(hist, r, tk)

Cohere_apredict_outcome(hist, d) ==
  IF d.status # 200 THEN LoopState(hist, <<>>, "Exception")
  ELSE Cohere_reply(hist, d)

\* status_data["status"] values the queue may report; FAILED is none of the three
\* the poller knows.
FalStatuses == {"COMPLETED", "IN_QUEUE", "IN_PROGRESS", "FAILED"}

NoResult == [kind |-> "none", item |-> 0, exc |-> NoneV]
Returned(i) == [kind |-> "ok", item |-> i, exc |-> NoneV]
Failed(i, e) == [kind |-> "exc", item |-> i, exc |-> e]
Cancelled(i) == [kind |-> "cancelled", item |-> i, exc |-> "CancelledError"]

BatchInit ==
  /\ bAdapter \in {"groq", "cohere", "falai"}
  /\ max_concurrent \in 1..MaxConcurrent
  /\ semaphore = max_concurrent
  /\ waiters = <<>>
  /\ tpc = [i \in Items |-> "created"]
  /\ fstage = [i \in Items |-> "none"]
  /\ attempts = [i \in Items |-> 0]
  /\ convs = [i \in Items |-> <<HumanMessage("q" \o ToString(i))>>]
  /\ tresult = [i \in Items |-> NoResult]
  /\ gather = [state |-> "pending", results |-> <<>>, error |-> <<>>]
  /\ cancelRequested = FALSE
  /\ order = <<>>

InFlight == {i \in Items : tpc[i] = "running"}
Ended == {i \in Items : tpc[i] \in {"done", "raised", "cancelled"}}

\* Mutant: a task enters only while a second slot is free as well.
SemaphoreFree_strict(value) == value > 1

\* Mutant: the block is entered without looking at the semaphore.
SemaphoreFree_unchecked(value) == TRUE

\* asyncio.Semaphore.acquire: a slot is free.
SemaphoreFree(value) == value > 0

\* Mutant: the slot is given back only when the block ends normally.
SemaphoreRelease_on_success(value, res) == IF res.kind = "ok" THEN value + 1 ELSE value

\* asyncio.Semaphore.release, called by __aexit__ on every exit of the block.
SemaphoreRelease(value, res) == value + 1

\* Mutant: the results are collected in the order the children ended.
GatherDone_completion_order(g, res, all, ended) ==
  IF g.state # "pending" THEN g
  ELSE IF res.kind = "cancelled"
    THEN [state |-> "cancelled", results |-> <<>>, error |-> <<res>>]
  ELSE IF res.kind = "exc"
    THEN [state |-> "raised", results |-> <<>>, error |-> <<res>>]
  ELSE IF \A j \in Items : all[j].kind # "none"
    THEN [state |-> "returned", results |-> ended, error |-> <<>>]
  ELSE g

\* Mutant: a later failure replaces the one already raised.
GatherDone_last_error(g, res, all, ended) ==
  IF res.kind = "exc" /\ g.state \in {"pending", "raised"}
    THEN [state |-> "raised", results |-> <<>>, error |-> <<res>>]
  ELSE IF g.state # "pending" THEN g
  ELSE IF res.kind = "cancelled"
    THEN [state |-> "cancelled", results |-> <<>>, error |-> <<res>>]
  ELSE IF \A j \in Items : all[j].kind # "none"
    THEN [state |-> "returned", results |-> [j \in Items |-> all[j].item],
          error |-> <<>>]
  ELSE g

\* asyncio.gather, return_exceptions left False: the callback run when child
\* i is done with res; all holds every child's outcome, ended the order they ended in.
GatherDone(g, res, all, ended) ==
  IF g.state # "pending" THEN g
  ELSE IF res.kind = "cancelled"
    THEN [state |-> "cancelled", results |-> <<>>, error |-> <<res>>]
  ELSE IF res.kind = "exc"
    THEN [state |-> "raised", results |-> <<>>, error |-> <<res>>]
  ELSE IF \A j \in Items : all[j].kind # "none"
    THEN [state |-> "returned", results |-> [j \in Items |-> all[j].item],
          error |-> <<>>]
  ELSE g

\* Mutant: the first failure cancels the children still pending.
CancelPending_on_failure == cancelRequested \/ gather.state = "raised"

\* gather cancels its children only when the awaiting caller is cancelled.
CancelPending == cancelRequested

\* The first await inside the block: apredict posts its request, agenerate_image
\* submits its job.
FirstAwait(a) == IF a = "falai" THEN "submit" ELSE "post"

\* First step of process_conversation: "async with semaphore" either enters the
\* block, where apredict posts its request and awaits, or queues on the semaphore.
TaskStart(i) ==
  /\ tpc[i] = "created" /\ ~CancelPending
  /\ IF SemaphoreFree(semaphore)
     THEN /\ semaphore' = semaphore - 1
          /\ tpc' = [tpc EXCEPT ![i] = "running"]
          /\ fstage' = [fstage EXCEPT ![i] = FirstAwait(bAdapter)]
          /\ UNCHANGED waiters
     ELSE /\ waiters' = Append(waiters, i)
          /\ tpc' = [tpc EXCEPT ![i] = "waiting"]
          /\ UNCHANGED <<semaphore, fstage>>
  /\ UNCHANGED <<callVars, pollVars, seqVars, ctorVars, shareVars, bAdapter, max_concurrent, attempts, convs, tresult, gather,
                 cancelRequested, order>>

\* A queued task is woken by a release and enters the block.
TaskAdmit(i) ==
  /\ tpc[i] = "waiting" /\ ~CancelPending
  /\ waiters # <<>> /\ Head(waiters) = i
  /\ SemaphoreFree(semaphore)
  /\ semaphore' = semaphore - 1
  /\ waiters' = Tail(waiters)
  /\ tpc' = [tpc EXCEPT ![i] = "running"]
  /\ fstage' = [fstage EXCEPT ![i] = FirstAwait(bAdapter)]
  /\ UNCHANGED <<callVars, pollVars, seqVars, ctorVars, shareVars, bAdapter, max_concurrent, attempts, convs, tresult, gather,
                 cancelRequested, order>>

\* apredict of item i ends with out; the block is left, gather is told.
TaskEnd(i, out) ==
  LET res == IF out.err = NoneV THEN Returned(i) ELSE Failed(i, out.err)
      all == [tresult EXCEPT ![i] = res]
  IN  /\ convs' = [convs EXCEPT ![i] = out.history]
      /\ semaphore' = SemaphoreRelease(semaphore, res)
      /\ tpc' = [tpc EXCEPT ![i] = IF out.err = NoneV THEN "done" ELSE "raised"]
      /\ fstage' = [fstage EXCEPT ![i] = "none"]
      /\ tresult' = all
      /\ order' = Append(order, i)
      /\ gather' = GatherDone(gather, res, all, order')
      /\ UNCHANGED <<callVars, pollVars, seqVars, ctorVars, shareVars, bAdapter, max_concurrent, waiters, cancelRequested>>

Groq_abatch_response(i) ==
  /\ bAdapter = "groq" /\ tpc[i] = "running" /\ ~CancelPending
  /\ UNCHANGED attempts
  /\ \E r \in BatchGroqResponses :
       TaskEnd(i, Groq_apredict_outcome(convs[i], r, BatchToolkit))

Cohere_abatch_response(i) ==
  /\ bAdapter = "cohere" /\ tpc[i] = "running" /\ ~CancelPending
  /\ UNCHANGED attempts
  /\ \E d \in BatchCohereResponses :
       TaskEnd(i, Cohere_apredict_outcome(convs[i], d))

\* ---- FalAIImgGenModel.abatch: agenerate_image inside the block ----
\* The task moves on to its next await.
FalAwait(i, stage, n) ==
  /\ fstage' = [fstage EXCEPT ![i] = stage]
  /\ attempts' = [attempts EXCEPT ![i] = n]
  /\ UNCHANGED <<callVars, pollVars, seqVars, ctorVars, shareVars, bAdapter, max_concurrent, semaphore, waiters, tpc, convs,
                 tresult, gather, cancelRequested, order>>

\* agenerate_image is left by return or raise; the loop counter dies with it.
FalEnd(i, e) ==
  /\ TaskEnd(i, LoopState(convs[i], <<>>, e))
  /\ attempts' = [attempts EXCEPT ![i] = 0]

FalRaise(i, e) == FalEnd(i, e)

\* Top of "for _ in range(self.max_retries)" with n passes completed.
FalLoopTop(i, n) ==
  IF n < MaxRetries THEN FalAwait(i, "status", n) ELSE FalRaise(i, "TimeoutError")

\* _async_send_request returned: request_id is read and the polling loop entered.
Fal_abatch_submitted(i) ==
  /\ bAdapter = "falai" /\ tpc[i] = "running" /\ fstage[i] = "submit" /\ ~CancelPending
  /\ \E http \in {200, 500} :
       IF Httpx_raise_for_status(http) THEN FalRaise(i, "HTTPStatusError") ELSE FalLoopTop(i, 0)

\* _async_check_status returned status_data.
Fal_abatch_status(i) ==
  /\ bAdapter = "falai" /\ tpc[i] = "running" /\ fstage[i] = "status" /\ ~CancelPending
  /\ \E status \in FalStatuses :
       IF status = "COMPLETED" THEN FalAwait(i, "result", 0)
       ELSE IF status \in {"IN_QUEUE", "IN_PROGRESS"} THEN FalAwait(i, "sleep", attempts[i])
       ELSE FalRaise(i, "RuntimeError")

\* asyncio.sleep(self.retry_delay) is over: next pass of the loop.
Fal_abatch_slept(i) ==
  /\ bAdapter = "falai" /\ tpc[i] = "running" /\ fstage[i] = "sleep" /\ ~CancelPending
  /\ FalLoopTop(i, attempts[i] + 1)

\* _async_get_result returned: agenerate_image returns the image url.
Fal_abatch_result(i) ==
  /\ bAdapter = "falai" /\ tpc[i] = "running" /\ fstage[i] = "result" /\ ~CancelPending
  /\ \E http \in {200, 500} :
       IF Httpx_raise_for_status(http) THEN FalRaise(i, "HTTPStatusError")
       ELSE FalEnd(i, NoneV)

\* The caller's task is cancelled while it awaits gather (or the loop shuts down
\* after abatch raised): every child that has not ended is cancelled.
CancelBatch ==
  /\ ~cancelRequested
  /\ gather.state \in {"pending", "raised"}
  /\ Ended # Items
  /\ cancelRequested' = TRUE
  /\ UNCHANGED <<callVars, pollVars, seqVars, ctorVars, shareVars, bAdapter, max_concurrent, semaphore, waiters, tpc, fstage,
                 attempts, convs, tresult, gather, order>>

\* CancelledError reaches task i at the point where it is suspended.
TaskCancelled(i) ==
  /\ CancelPending
  /\ tpc[i] \in {"created", "waiting", "running"}
  /\ tpc' = [tpc EXCEPT ![i] = "cancelled"]
  /\ semaphore' = IF tpc[i] = "running" THEN SemaphoreRelease(semaphore, Cancelled(i))
                   ELSE semaphore
  /\ waiters' = SelectSeq(waiters, LAMBDA j : j # i)
  /\ tresult' = [tresult EXCEPT ![i] = Cancelled(i)]
  /\ order' = Append(order, i)
  /\ gather' = GatherDone(gather, Cancelled(i), tresult', order')
  /\ fstage' = [fstage EXCEPT ![i] = "none"]
  /\ attempts' = [attempts EXCEPT ![i] = 0]
  /\ UNCHANGED <<callVars, pollVars, seqVars, ctorVars, shareVars, bAdapter, max_concurrent, convs, cancelRequested>>

BatchNext ==
  \/ \E i \in Items : TaskStart(i)
  \/ \E i \in Items : TaskAdmit(i)
  \/ \E i \in Items : Groq_abatch_response(i)
  \/ \E i \in Items : Cohere_abatch_response(i)
  \/ \E i \in Items : Fal_abatch_submitted(i)
  \/ \E i \in Items : Fal_abatch_status(i)
  \/ \E i \in Items : Fal_abatch_slept(i)
  \/ \E i \in Items : Fal_abatch_result(i)
  \/ CancelBatch
  \/ \E i \in Items : TaskCancelled(i)

InitBatch == BatchInit /\ CallIdle /\ PollIdle /\ SeqIdle /\ CtorIdle /\ ShareIdle
NextBatch == BatchNext
SpecBatch == InitBatch /\ [][NextBatch]_vars

(***************************************************************************)
(* Properties of one adapter call (SpecCall).                              *)
(***************************************************************************)
\* The parsed first response of a Groq call, once it has arrived with a 2xx status.
GroqAnswered == adapter = "groq" /\ Len(resp) >= 1 /\ ~Groq_raise_for_status(mode, resp[1].status)
Calls == resp[1].tool_calls

\* Position in history of the answer to the i-th tool call, were all before it
\* answered.
Base == Len(pre) + (IF resp[1].content # NoKey THEN 1 ELSE 0)

\* The call tc can be looked up, its arguments parse and the tool returns.
Resolvable(tc) == toolkit.present /\ tc.name \in toolkit.tools
ToolReturns(tc) ==
  /\ Resolvable(tc)
  /\ tc.arguments \in {"{a:4,b:2}", "{a:4,b:0}"}
  /\ ~(tc.name = "div" /\ tc.arguments = "{a:4,b:0}")

\* Index of the first tool call that fails, 0 if none does.
FirstFailing ==
  IF \A i \in 1..Len(Calls) : ToolReturns(Calls[i]) THEN 0
  ELSE CHOOSE k \in 1..Len(Calls) :
         ~ToolReturns(Calls[k]) /\ \A i \in 1..(k - 1) : ToolReturns(Calls[i])

Answers(id) == {j \in 1..Len(history) : history[j].tool_call_id = id}
Invocations(id) == {j \in 1..Len(invoked) : invoked[j].id = id}

\* The text the backend replied with (Groq: message.content, Cohere: data.text).
ReplyText == IF adapter = "groq" THEN resp[1].content ELSE resp[1].text
PredictReturnedWithoutToolCalls ==
  /\ mode = "predict" /\ pc = "returned"
  /\ adapter = "groq" => Calls = <<>>

\* C1 as stated: predict, given a successful response without tool calls, appends
\* exactly one assistant message, keeps the earlier messages and leaves the reply as
\* the last message.
C1_AlwaysOneAssistantMessage ==
  PredictReturnedWithoutToolCalls =>
    /\ Len(history) = Len(pre) + 1
    /\ IsPrefix(pre, history)
    /\ history[Len(history)].role = "assistant"
    /\ history[Len(history)].content = ReplyText

\* C1 amended: predict, given a successful response without tool calls, appends
\* exactly one assistant message holding the reply when the response carries the
\* reply field (Groq: the "content" key, null included; Cohere: always), and leaves
\* the conversation unchanged when a Groq response has no "content" key; the earlier
\* messages stay in place either way.
C1_OneAssistantMessageIfContent ==
  PredictReturnedWithoutToolCalls =>
    IF ReplyText # NoKey
    THEN /\ Len(history) = Len(pre) + 1
         /\ IsPrefix(pre, history)
         /\ history[Len(history)].role = "assistant"
         /\ history[Len(history)].content = ReplyText
    ELSE history = pre

C1_Witness ==
  /\ PredictReturnedWithoutToolCalls
  /\ adapter = "groq" /\ resp[1].content = NoneV
  /\ pre # <<>>
  /\ Len(history) = Len(pre) + 1

C3_UnregisteredToolFails ==
  (/\ GroqAnswered /\ toolkit.present
   /\ FirstFailing # 0 /\ Calls[FirstFailing].name \notin toolkit.tools) =>
    /\ pc = "raised" /\ err = "ToolNotFound"
    /\ Invocations(Calls[FirstFailing].id) = {}
    /\ Answers(Calls[FirstFailing].id) = {}

C3_Witness ==
  /\ GroqAnswered /\ toolkit = Toolkit({"add"})
  /\ Len(Calls) = 2 /\ Calls[1].name = "add" /\ Calls[2].name = "div"
  /\ FirstFailing = 2
  /\ err = "ToolNotFound"
  /\ Len(invoked) = 1

\* C4: when the first tool call that fails is one whose tool raises, the error
\* leaves predict / apredict / stream / astream (nothing catches it) and no tool
\* message answers the failing call.
ToolRaises(tc) ==
  Resolvable(tc) /\ tc.name = "div" /\ tc.arguments = "{a:4,b:0}"

C4_ToolErrorPropagates ==
  (GroqAnswered /\ FirstFailing # 0 /\ ToolRaises(Calls[FirstFailing])) =>
    /\ pc = "raised" /\ err = "ToolError"
    /\ Invocations(Calls[FirstFailing].id) # {}
    /\ Answers(Calls[FirstFailing].id) = {}

C4_Witness ==
  /\ GroqAnswered /\ mode = "astream"
  /\ Len(Calls) = 2 /\ ToolRaises(Calls[2]) /\ FirstFailing = 2
  /\ pc = "raised" /\ err = "ToolError"
  /\ Len(invoked) = 2

\* C5: when the k-th tool call fails (lookup, argument parsing or execution), the
\* assistant message and the tool messages of calls 1..k-1 are in the conversation,
\* nothing else was appended, and calls k+1.. are neither invoked nor answered.
C5_PartialFailureKept ==
  (GroqAnswered /\ FirstFailing # 0) =>
    LET k == FirstFailing
    IN  /\ pc = "raised"
        /\ IsPrefix(pre, history)
        /\ Len(history) = Base + (k - 1)
        /\ resp[1].content # NoKey =>
             history[Len(pre) + 1] = AgentMessage(resp[1].content)
        /\ \A i \in 1..(k - 1) :
             /\ history[Base + i].role = "tool"
             /\ history[Base + i].tool_call_id = Calls[i].id
             /\ Invocations(Calls[i].id) # {}
        /\ \A j \in (k + 1)..Len(Calls) :
             /\ Invocations(Calls[j].id) = {}
             /\ Answers(Calls[j].id) = {}

C5_Witness ==
  /\ GroqAnswered /\ mode = "predict" /\ MaxCalls >= 2
  /\ Len(Calls) = MaxCalls /\ FirstFailing = 2
  /\ resp[1].content = "hi"
  /\ pc = "raised"
  /\ Len(history) = Len(pre) + 2

(***************************************************************************)
(* Properties of abatch (SpecBatch).                                       *)
(***************************************************************************)
InitialConv(i) == <<HumanMessage("q" \o ToString(i))>>

\* C6: at most C items are in flight (inside the semaphore block, their request
\* issued and not yet ended) in every reachable state of abatch.
C6_InFlightBounded == Cardinality(InFlight) <= max_concurrent

C6_Witness ==
  /\ max_concurrent = MaxConcurrent /\ MaxConcurrent < NItems
  /\ Cardinality(InFlight) = max_concurrent
  /\ Len(waiters) = NItems - max_concurrent

\* C7: when abatch returns, every item has succeeded, the list has N elements and
\* its i-th element is the conversation returned for the i-th input, whatever the
\* order the items ended in; and when all N items succeeded abatch has returned.
C7_ResultsInInputOrder ==
  /\ gather.state = "returned" =>
       /\ Len(gather.results) = NItems
       /\ \A i \in Items : gather.results[i] = i /\ tresult[i] = Returned(i)
  /\ (\A i \in Items : tpc[i] = "done") => gather.state = "returned"

C7_Witness ==
  /\ gather.state = "returned"
  /\ Len(order) = NItems /\ order[1] = NItems /\ order[NItems] = 1
  /\ Len(gather.results) = NItems

\* C8: the slots taken from the semaphore are exactly those of the items in flight,
\* and once every item has ended (returned, raised or cancelled) all C slots are
\* free again.
C8_SlotsMatchInFlight ==
  /\ max_concurrent - semaphore = Cardinality(InFlight)
  /\ Ended = Items => semaphore = max_concurrent

C8_Witness ==
  /\ Ended = Items
  /\ \E i \in Items : tpc[i] = "raised"
  /\ \E i \in Items : tpc[i] = "done"
  /\ \E i \in Items : tpc[i] = "cancelled"
  /\ semaphore = max_concurrent

\* C9: a failing item cancels nothing: unless the caller cancelled abatch, no item is
\* ever cancelled, after a failure every sibling that has not ended can still take
\* its next step (be admitted when a slot is free, receive its response), and an item
\* that returned has appended its reply to its own conversation, while an item that
\* has not yet received its response left its conversation as it was.
SiblingCanProceed(i) ==
  /\ tpc[i] = "created" => ENABLED TaskStart(i)
  /\ (tpc[i] = "waiting" /\ Head(waiters) = i /\ semaphore > 0) => ENABLED TaskAdmit(i)
  /\ tpc[i] = "running" =>
       ENABLED (\/ Groq_abatch_response(i) \/ Cohere_abatch_response(i)
                \/ Fal_abatch_submitted(i) \/ Fal_abatch_status(i)
                \/ Fal_abatch_slept(i) \/ Fal_abatch_result(i))

C9_SiblingsNotCancelled ==
  ~cancelRequested =>
    /\ \A i \in Items : tpc[i] # "cancelled"
    /\ \A i \in Items : SiblingCanProceed(i)
    /\ \A i \in Items :
         /\ (tpc[i] = "done" /\ bAdapter # "falai") =>
              /\ Len(convs[i]) > 1
              /\ IsPrefix(InitialConv(i), convs[i])
              /\ convs[i][2].role = "assistant"
         /\ tpc[i] \in {"created", "waiting", "running"} => convs[i] = InitialConv(i)

C9_Witness ==
  /\ ~cancelRequested /\ gather.state = "raised"
  /\ Ended = Items
  /\ tpc[order[1]] = "raised"
  /\ \A i \in Items \ {order[1]} : tpc[i] = "done" /\ Len(convs[i]) > 1
  /\ tpc[1] = "done" /\ order[NItems] = 1

\* C10: as soon as an item has raised, abatch has raised: the error is that of the
\* item that failed first in time, and there is no result list.
RaisedInOrder == SelectSeq(order, LAMBDA i : tpc[i] = "raised")

C10_StrictFailFirstError ==
  (\E i \in Items : tpc[i] = "raised") =>
    /\ gather.state = "raised"
    /\ gather.results = <<>>
    /\ gather.error = <<tresult[RaisedInOrder[1]]>>

C10_Witness ==
  /\ gather.state = "raised"
  /\ Len(RaisedInOrder) >= 2
  /\ RaisedInOrder[1] > RaisedInOrder[2]
  /\ \E i \in Items : tpc[i] = "done"

(***************************************************************************)
(* Properties of the usage record (SpecCall, CohereModel).                 *)
(***************************************************************************)
\* The usage records attached to the messages of the conversation.
UsageRecords == {history[k].usage[1] : k \in {j \in 1..Len(history) : history[j].usage # <<>>}}

\* C19: every usage record built by _prepare_usage_data has total_tokens equal to
\* prompt_tokens + completion_tokens and total_time equal to prompt_time +
\* completion_time, whatever usage block (empty and all-zero included) it came from.
C19_UsageTotalsAreSums ==
  \A u \in UsageRecords :
    /\ u.total_tokens = u.prompt_tokens + u.completion_tokens
    /\ u.total_time = u.prompt_time + u.completion_time

C19_Witness ==
  /\ adapter = "cohere" /\ pc = "returned"
  /\ \E u \in UsageRecords :
       /\ u.prompt_tokens = 2 /\ u.completion_tokens = 3 /\ u.total_tokens = 5
       /\ u.prompt_time = 1 /\ u.completion_time = 1 /\ u.total_time = 2

\* The usage block the call received: data.get("usage", {}) of a reply, the last
\* usage record of a stream, the empty block when the stream carried none.
UsageLines ==
  SelectSeq(resp, LAMBDA r : r.line # NoKey /\ Cohere_parse_line(r.line).kind = "usage")
ReceivedUsage ==
  IF mode \in {"predict", "apredict"} THEN resp[1].usage
  ELSE IF UsageLines = <<>> THEN EmptyDict
  ELSE Cohere_parse_line(UsageLines[Len(UsageLines)].line).usage
Counter(block, k) == IF k \in DOMAIN block THEN block[k] ELSE 0

\* C20: in the usage record of a returned Cohere call each token counter is the one
\* of the received usage block, zero when the block lacks it; total_tokens is the sum
\* of these two whatever total the backend sent; a stream that delivered no usage
\* record yields token counts that are all zero.
C20_MissingCountersZeroTotalsRecomputed ==
  (adapter = "cohere" /\ pc = "returned") =>
    LET u == history[Len(history)].usage[1]
    IN  /\ Len(history) = Len(pre) + 1
        /\ u.prompt_tokens = Counter(ReceivedUsage, "input_tokens")
        /\ u.completion_tokens = Counter(ReceivedUsage, "output_tokens")
        /\ u.total_tokens = Counter(ReceivedUsage, "input_tokens")
                            + Counter(ReceivedUsage, "output_tokens")
        /\ (mode \in {"stream", "astream"} /\ UsageLines = <<>>) =>
             /\ u.prompt_tokens = 0 /\ u.completion_tokens = 0 /\ u.total_tokens = 0

C20_Witness ==
  /\ adapter = "cohere" /\ pc = "returned" /\ mode = "stream"
  /\ "total_tokens" \in DOMAIN ReceivedUsage
  /\ ReceivedUsage["total_tokens"] = 9
  /\ history[Len(history)].usage[1].total_tokens = 5
  /\ yielded # <<>>

\* A stream that carried no usage record has ended: the case of C20's last clause.
C20_NoUsageStreamReturned ==
  /\ adapter = "cohere" /\ pc = "returned" /\ mode = "astream"
  /\ UsageLines = <<>> /\ yielded # <<>>

(***************************************************************************)
(* Partial results of abatch (SpecBatch).                                  *)
(***************************************************************************)
\* C11: once every task of the batch has ended, what abatch hands to its caller
\* holds, for each of the N items and in input order, that item's own outcome (its
\* result or its error), also when some items failed.
C11_PartialResultsObtainable ==
  (Ended = Items /\ ~cancelRequested) =>
    /\ Len(gather.results) = NItems
    /\ \A i \in Items : gather.results[i] = tresult[i].item

(***************************************************************************)
(* FalAIImgGenModel: the queue protocol of generate_image (synchronous)    *)
(* and agenerate_image (asynchronous).  A call is a record                 *)
(*   pc          "called" | "submit" | "status" | "sleep" | "result" |     *)
(*               "returned" | "raised": the request the call waits on      *)
(*   request_id  initial_response["request_id"], NoneV before              *)
(*   passes      passes of "for _ in range(self.max_retries)" completed    *)
(*   log         the requests and waits issued, in order                   *)
(*   out         what the call returned or raised                          *)
(***************************************************************************)
SubmitResponses ==
  {[http |-> 200, request_id |-> "job1"], [http |-> 200, request_id |-> "job2"],
   [http |-> 500, request_id |-> NoKey]}
StatusResponses ==
  {[http |-> 200, status |-> s] : s \in FalStatuses} \cup {[http |-> 500, status |-> NoKey]}
ResultResponses ==
  {[http |-> 200, url |-> "url1"], [http |-> 200, url |-> "url2"], [http |-> 500, url |-> NoKey]}

NoOutcome == [kind |-> "none", value |-> NoneV, id |-> NoneV]
FalCalled ==
  [pc |-> "called", request_id |-> NoneV, passes |-> 0, log |-> <<>>, out |-> NoOutcome]

FalLog(st, op) == [st EXCEPT !.log = Append(@, [op |-> op, id |-> st.request_id])]
\* An exception leaves the call; id is the request id its message carries.
FalRaised(st, e, id) ==
  [st EXCEPT !.pc = "raised", !.out = [kind |-> "exc", value |-> e, id |-> id]]
FalReturned(st, v) ==
  [st EXCEPT !.pc = "returned", !.out = [kind |-> "ok", value |-> v, id |-> st.request_id]]

\* ---- synchronous: generate_image, _send_request, _wait_for_completion ----
\* generate_image calls _send_request, which posts the prompt.
Fal_send_request(st) == [FalLog(st, "submit") EXCEPT !.pc = "submit"]

\* Mutant: one pass too many.
Fal_wait_loop_extra_pass(st, n, max) ==
  IF n <= max THEN [FalLog(st, "status") EXCEPT !.pc = "status", !.passes = n]
  ELSE FalRaised(st, "TimeoutError", st.request_id)

\* Top of "for _ in range(self.max_retries)" after n passes: _check_status is
\* called, or the loop is over and TimeoutError is raised.
Fal_wait_loop(st, n, max) ==
  IF n < max THEN [FalLog(st, "status") EXCEPT !.pc = "status", !.passes = n]
  ELSE FalRaised(st, "TimeoutError", st.request_id)

\* Mutant: every call polls the first job.
Fal_send_request_returned_first_job(st, r, max) ==
  IF Httpx_raise_for_status(r.http) THEN FalRaised(st, "HTTPStatusError", NoneV)
  ELSE IF r.request_id = NoKey THEN FalRaised(st, "KeyError", NoneV)
  ELSE Fal_wait_loop([st EXCEPT !.request_id = "job1"], 0, max)

\* _send_request returns: raise_for_status, response.json(), then generate_image
\* reads request_id and enters _wait_for_completion.
Fal_send_request_returned(st, r, max) ==
  IF Httpx_raise_for_status(r.http) THEN FalRaised(st, "HTTPStatusError", NoneV)
  ELSE IF r.request_id = NoKey THEN FalRaised(st, "KeyError", NoneV)
  ELSE Fal_wait_loop([st EXCEPT !.request_id = r.request_id], 0, max)

\* Mutant: COMPLETED ends the loop with the status data, nothing is fetched.
Fal_check_status_returned_no_fetch(st, r, max) ==
  IF Httpx_raise_for_status(r.http) THEN FalRaised(st, "HTTPStatusError", NoneV)
  ELSE IF r.status = "COMPLETED" THEN FalReturned(st, r.status)
  ELSE IF r.status \in {"IN_QUEUE", "IN_PROGRESS"}
    THEN [FalLog(st, "sleep") EXCEPT !.pc = "sleep"]
  ELSE FalRaised(st, "RuntimeError", NoneV)

\* Mutant: a status the poller does not know is polled again.
Fal_check_status_returned_retry_unknown(st, r, max) ==
  IF Httpx_raise_for_status(r.http) THEN FalRaised(st, "HTTPStatusError", NoneV)
  ELSE IF r.status = "COMPLETED" THEN [FalLog(st, "result") EXCEPT !.pc = "result"]
  ELSE [FalLog(st, "sleep") EXCEPT !.pc = "sleep"]

\* _check_status returns status_data: _get_result, time.sleep or RuntimeError.
Fal_check_status_returned(st, r, max) ==
  IF Httpx_raise_for_status(r.http) THEN FalRaised(st, "HTTPStatusError", NoneV)
  ELSE IF r.status = "COMPLETED" THEN [FalLog(st, "result") EXCEPT !.pc = "result"]
  ELSE IF r.status \in {"IN_QUEUE", "IN_PROGRESS"}
    THEN [FalLog(st, "sleep") EXCEPT !.pc = "sleep"]
  ELSE FalRaised(st, "RuntimeError", NoneV)

\* time.sleep(self.retry_delay) is over: next pass.
Fal_sleep_returned(st, max) == Fal_wait_loop(st, st.passes + 1, max)

\* Mutant: a failed fetch of the result is swallowed.
Fal_get_result_returned_swallow(st, r) ==
  IF Httpx_raise_for_status(r.http) THEN FalReturned(st, NoneV)
  ELSE FalReturned(st, r.url)

\* _get_result returns: _wait_for_completion returns it and generate_image
\* returns final_response["response"]["images"][0]["url"].
Fal_get_result_returned(st, r) ==
  IF Httpx_raise_for_status(r.http) THEN FalRaised(st, "HTTPStatusError", NoneV)
  ELSE FalReturned(st, r.url)

\* ---- asynchronous: agenerate_image, _async_send_request, ----
\* ---- _async_wait_for_completion                          ----
Fal_async_send_request(st) == [FalLog(st, "submit") EXCEPT !.pc = "submit"]

\* Mutant: the asynchronous loop makes one pass more than max_retries.
Fal_async_wait_loop_extra_pass(st, n, max) ==
  IF n <= max THEN [FalLog(st, "status") EXCEPT !.pc = "status", !.passes = n]
  ELSE FalRaised(st, "TimeoutError", st.request_id)

\* Mutant: the asynchronous loop makes one pass less than the synchronous one.
Fal_async_wait_loop_short(st, n, max) ==
  IF n + 1 < max THEN [FalLog(st, "status") EXCEPT !.pc = "status", !.passes = n]
  ELSE FalRaised(st, "TimeoutError", st.request_id)

Fal_async_wait_loop(st, n, max) ==
  IF n < max THEN [FalLog(st, "status") EXCEPT !.pc = "status", !.passes = n]
  ELSE FalRaised(st, "TimeoutError", st.request_id)

Fal_async_send_request_returned(st, r, max) ==
  IF Httpx_raise_for_status(r.http) THEN FalRaised(st, "HTTPStatusError", NoneV)
  ELSE IF r.request_id = NoKey THEN FalRaised(st, "KeyError", NoneV)
  ELSE Fal_async_wait_loop([st EXCEPT !.request_id = r.request_id], 0, max)

\* Mutant: a job that is in progress has its result fetched already.
Fal_async_check_status_returned_fetch_early(st, r, max) ==
  IF Httpx_raise_for_status(r.http) THEN FalRaised(st, "HTTPStatusError", NoneV)
  ELSE IF r.status \in {"COMPLETED", "IN_PROGRESS"}
    THEN [FalLog(st, "result") EXCEPT !.pc = "result"]
  ELSE IF r.status = "IN_QUEUE"
    THEN [FalLog(st, "sleep") EXCEPT !.pc = "sleep"]
  ELSE FalRaised(st, "RuntimeError", NoneV)

Fal_async_check_status_returned(st, r, max) ==
  IF Httpx_raise_for_status(r.http) THEN FalRaised(st, "HTTPStatusError", NoneV)
  ELSE IF r.status = "COMPLETED" THEN [FalLog(st, "result") EXCEPT !.pc = "result"]
  ELSE IF r.status \in {"IN_QUEUE", "IN_PROGRESS"}
    THEN [FalLog(st, "sleep") EXCEPT !.pc = "sleep"]
  ELSE FalRaised(st, "RuntimeError", NoneV)

\* await asyncio.sleep(self.retry_delay) is over: next pass.
Fal_async_sleep_returned(st, max) == Fal_async_wait_loop(st, st.passes + 1, max)

Fal_async_get_result_returned(st, r) ==
  IF Httpx_raise_for_status(r.http) THEN FalRaised(st, "HTTPStatusError", NoneV)
  ELSE FalReturned(st, r.url)

(***************************************************************************)
(* SpecPoll: one generate_image call ("sync") and one agenerate_image call *)
(* ("async") on an instance with max_retries, facing a queue that gives    *)
(* both the same answers.  script records the answers given so far; the    *)
(* call that is ahead draws the next answer, the other one reads it.       *)
(***************************************************************************)
PollModes == {"sync", "async"}

PollInit ==
  /\ max_retries \in 0..MaxRetries
  /\ script = [submit |-> <<>>, statuses |-> <<>>, result |-> <<>>]
  /\ poll = [m \in PollModes |-> FalCalled]

\* The answers the queue may give to the next request of a kind.
SubmitAnswers == IF script.submit = <<>> THEN SubmitResponses ELSE {script.submit[1]}
StatusAnswers(k) ==
  IF k <= Len(script.statuses) THEN {script.statuses[k]} ELSE StatusResponses
ResultAnswers == IF script.result = <<>> THEN ResultResponses ELSE {script.result[1]}

\* generate_image / agenerate_image is called and posts the prompt.
Fal_generate_image_called(m) ==
  /\ poll[m].pc = "called"
  /\ poll' = [poll EXCEPT ![m] = IF m = "sync" THEN Fal_send_request(@)
                                  ELSE Fal_async_send_request(@)]
  /\ UNCHANGED <<callVars, batchVars, seqVars, ctorVars, shareVars, max_retries, script>>

\* The queue answers the submission.
Fal_submit_answered(m) ==
  /\ poll[m].pc = "submit"
  /\ \E r \in SubmitAnswers :
       /\ script' = [script EXCEPT !.submit = <<r>>]
       /\ poll' = [poll EXCEPT ![m] =
                     IF m = "sync" THEN Fal_send_request_returned(@, r, max_retries)
                     ELSE Fal_async_send_request_returned(@, r, max_retries)]
  /\ UNCHANGED <<callVars, batchVars, seqVars, ctorVars, shareVars, max_retries>>

\* The queue answers a status query.
Fal_status_answered(m) ==
  /\ poll[m].pc = "status"
  /\ LET k == poll[m].passes + 1
     IN  \E r \in StatusAnswers(k) :
           /\ script' = IF k <= Len(script.statuses) THEN script
                        ELSE [script EXCEPT !.statuses = Append(@, r)]
           /\ poll' = [poll EXCEPT ![m] =
                         IF m = "sync" THEN Fal_check_status_returned(@, r, max_retries)
                         ELSE Fal_async_check_status_returned(@, r, max_retries)]
  /\ UNCHANGED <<callVars, batchVars, seqVars, ctorVars, shareVars, max_retries>>

\* retry_delay has passed.
Fal_sleep_over(m) ==
  /\ poll[m].pc = "sleep"
  /\ poll' = [poll EXCEPT ![m] = IF m = "sync" THEN Fal_sleep_returned(@, max_retries)
                                  ELSE Fal_async_sleep_returned(@, max_retries)]
  /\ UNCHANGED <<callVars, batchVars, seqVars, ctorVars, shareVars, max_retries, script>>

\* The queue answers the fetch of the result.
Fal_result_answered(m) ==
  /\ poll[m].pc = "result"
  /\ \E r \in ResultAnswers :
       /\ script' = [script EXCEPT !.result = <<r>>]
       /\ poll' = [poll EXCEPT ![m] = IF m = "sync" THEN Fal_get_result_returned(@, r)
                                       ELSE Fal_async_get_result_returned(@, r)]
  /\ UNCHANGED <<callVars, batchVars, seqVars, ctorVars, shareVars, max_retries>>

PollNext ==
  \/ \E m \in PollModes : Fal_generate_image_called(m)
  \/ \E m \in PollModes : Fal_submit_answered(m)
  \/ \E m \in PollModes : Fal_status_answered(m)
  \/ \E m \in PollModes : Fal_sleep_over(m)
  \/ \E m \in PollModes : Fal_result_answered(m)

InitPoll == PollInit /\ CallIdle /\ BatchIdle /\ SeqIdle /\ CtorIdle /\ ShareIdle
NextPoll == PollNext
SpecPoll == InitPoll /\ [][NextPoll]_vars

(***************************************************************************)
(* Properties of the job poller (SpecPoll).                                *)
(***************************************************************************)
PollEnded(m) == poll[m].pc \in {"returned", "raised"}
\* The submission was accepted and the call entered its polling loop.
Polled(m) == poll[m].request_id # NoneV
Issued(m, op) == Cardinality({j \in 1..Len(poll[m].log) : poll[m].log[j].op = op})
NonTerminal(r) == r.http = 200 /\ r.status \in {"IN_QUEUE", "IN_PROGRESS"}
\* The first k status answers are k-1 non-terminal values and then one with status s.
StatusesEndWith(k, s) ==
  /\ k \in 1..Len(script.statuses)
  /\ \A j \in 1..(k - 1) : NonTerminal(script.statuses[j])
  /\ script.statuses[k].http = 200 /\ script.statuses[k].status = s

\* C13: when the status answers are k-1 non-terminal values followed by COMPLETED,
\* with 1 <= k <= max_retries, the poller has issued exactly k status queries, k-1
\* waits and one fetch of the result when it ends, and it returns the result fetched.
C13_SuccessAfterKQueries ==
  \A m \in PollModes : \A k \in 1..max_retries :
    (PollEnded(m) /\ Polled(m) /\ StatusesEndWith(k, "COMPLETED")) =>
      /\ Issued(m, "status") = k
      /\ Issued(m, "sleep") = k - 1
      /\ Issued(m, "result") = 1
      /\ poll[m].log[Len(poll[m].log)].op = "result"
      /\ script.result # <<>>
      /\ ~Httpx_raise_for_status(script.result[1].http) =>
           /\ poll[m].pc = "returned"
           /\ poll[m].out.value = script.result[1].url

C13_Witness ==
  /\ max_retries = MaxRetries
  /\ StatusesEndWith(MaxRetries, "COMPLETED")
  /\ poll["sync"].pc = "returned" /\ poll["sync"].out.value = "url2"
  /\ Issued("sync", "status") = MaxRetries /\ Issued("sync", "sleep") = MaxRetries - 1

\* C14: when the job is non-terminal at each of max_retries status queries, the
\* poller ends after exactly max_retries queries with a TimeoutError that carries
\* the job id, and never fetches a result.
C14_TimeoutAfterMaxRetries ==
  \A m \in PollModes :
    (/\ PollEnded(m) /\ Polled(m)
     /\ Len(script.statuses) >= max_retries
     /\ \A j \in 1..max_retries : NonTerminal(script.statuses[j])) =>
      /\ poll[m].pc = "raised"
      /\ poll[m].out.value = "TimeoutError"
      /\ poll[m].out.id = script.submit[1].request_id
      /\ Issued(m, "status") = max_retries
      /\ Issued(m, "result") = 0

C14_Witness ==
  /\ max_retries = MaxRetries /\ MaxRetries >= 2
  /\ poll["async"].pc = "raised" /\ poll["async"].out.value = "TimeoutError"
  /\ poll["async"].out.id = "job2"
  /\ Issued("async", "status") = MaxRetries /\ Issued("async", "sleep") = MaxRetries

\* C15: the first status value that is none of COMPLETED, IN_QUEUE, IN_PROGRESS ends
\* the poller with RuntimeError: the status query that got it is the last thing the
\* poller did, so no wait, no further query and no fetch follows it.
C15_UnexpectedStatusFailsFast ==
  \A m \in PollModes : \A k \in 1..max_retries :
    (Polled(m) /\ poll[m].passes + 1 >= k /\ poll[m].pc # "status"
     /\ StatusesEndWith(k, "FAILED")) =>
      /\ poll[m].pc = "raised"
      /\ poll[m].out.value = "RuntimeError"
      /\ Issued(m, "status") = k
      /\ Issued(m, "sleep") = k - 1
      /\ Issued(m, "result") = 0
      /\ poll[m].log[Len(poll[m].log)].op = "status"

C15_Witness ==
  /\ max_retries = MaxRetries /\ MaxRetries >= 2
  /\ StatusesEndWith(2, "FAILED")
  /\ poll["sync"].pc = "raised" /\ poll["sync"].out.value = "RuntimeError"
  /\ Issued("sync", "status") = 2 /\ Issued("sync", "sleep") = 1

\* C16: facing the same answers and the same max_retries, generate_image and
\* agenerate_image issue the same sequence of status queries, waits and fetches: at
\* any moment the log of one is a prefix of the other's, and when both have ended
\* their logs and their outcomes are equal.
C16_SyncAsyncSameMachine ==
  LET s == poll["sync"]
      a == poll["async"]
  IN  /\ IsPrefix(s.log, a.log) \/ IsPrefix(a.log, s.log)
      /\ (PollEnded("sync") /\ PollEnded("async")) =>
           /\ s.log = a.log
           /\ s.out = a.out
           /\ s.pc = a.pc

C16_Witness ==
  /\ poll["sync"].pc = "returned" /\ poll["async"].pc = "returned"
  /\ Issued("sync", "sleep") >= 1 /\ Issued("async", "result") = 1
  /\ poll["sync"].log = poll["async"].log

\* C17: each call issues exactly one submission and issues it first; while the
\* submission is unanswered nothing else has been requested; every status query and
\* the fetch of the result carry the request id the submission returned.
C17_SubmitFirstThenPollItsJob ==
  \A m \in PollModes :
    LET log == poll[m].log
    IN  /\ poll[m].pc = "called" => log = <<>>
        /\ poll[m].pc # "called" => log[1].op = "submit" /\ Issued(m, "submit") = 1
        /\ poll[m].pc = "submit" => Len(log) = 1
        /\ \A j \in 1..Len(log) :
             log[j].op \in {"status", "result"} =>
               /\ script.submit # <<>>
               /\ ~Httpx_raise_for_status(script.submit[1].http)
               /\ log[j].id = script.submit[1].request_id

C17_Witness ==
  /\ poll["sync"].pc = "returned" /\ poll["async"].pc = "result"
  /\ script.submit[1].request_id = "job2"
  /\ Issued("sync", "status") = 2 /\ Issued("sync", "result") = 1
  /\ poll["sync"].out.id = "job2"

(***************************************************************************)
(* SpecSeq: one batch call.  batch is the list comprehension               *)
(*   [self.predict(conv, ...) for conv in conversations]                   *)
(* (FalAI: self.generate_image(prompt) for prompt in prompts).             *)
(*   spc: "next"     about to take the next item of the input list         *)
(*        "wait"     the single-item call waits for the backend            *)
(*        "returned" batch returned the list                               *)
(*        "raised"   an exception left batch                               *)
(*   slog records the single-item calls: "call" when one is made and its   *)
(*   first request issued, "return" / "raise" when it ends.                *)
(***************************************************************************)
SeqInit ==
  /\ sAdapter \in {"groq", "cohere", "falai"}
  /\ sidx = 1
  /\ spc = "next"
  /\ sconvs = [i \in Items |-> <<HumanMessage("q" \o ToString(i))>>]
  /\ sout = <<>>
  /\ slog = <<>>
  /\ serr = NoneV
  /\ spoll = FalCalled
  /\ max_retries = MaxRetries
  /\ script = <<>>
  /\ poll = <<>>

\* self.predict(conv, ...) once its response r is there: [history, invoked, err].
Groq_predict_outcome(hist, r, tk) ==
  IF RaisesForStatus(r.status) THEN LoopState(hist, <<>>, "HTTPError")
  ELSE Groq_tool_response(hist, r, tk)

Cohere_predict_outcome(hist, d) ==
  IF RaisesForStatus(d.status) THEN LoopState(hist, <<>>, "HTTPError")
  ELSE Cohere_reply(hist, d)

\* Mutant: the newest result is put in front of the list.
BatchCollect_front(out, x) == <<x>> \o out

\* The comprehension adds the value of the call to the list it builds.
BatchCollect(out, x) == Append(out, x)

\* The comprehension takes item i and calls predict / generate_image on it; the call
\* issues its first request.
Batch_call(i) ==
  /\ spc = "next" /\ sidx = i
  /\ spc' = "wait"
  /\ slog' = Append(slog, [ev |-> "call", item |-> i])
  /\ spoll' = IF sAdapter = "falai" THEN Fal_send_request(FalCalled) ELSE spoll
  /\ UNCHANGED <<callVars, batchVars, pollVars, ctorVars, shareVars, sAdapter, sidx, sconvs, sout, serr>>

\* The call on item i returns value v: the comprehension moves to the next item.
ItemReturn(i, v) ==
  /\ sout' = BatchCollect(sout, [item |-> i, value |-> v])
  /\ slog' = Append(slog, [ev |-> "return", item |-> i])
  /\ sidx' = i + 1
  /\ spc' = "next"
  /\ UNCHANGED serr

\* Mutant: the exception is noted and the comprehension goes on with the next item.
ItemRaise_continue(i, e) ==
  /\ serr' = e
  /\ slog' = Append(slog, [ev |-> "raise", item |-> i])
  /\ sidx' = i + 1
  /\ spc' = "next"
  /\ UNCHANGED sout

\* The call on item i raises e: the exception leaves the comprehension and batch.
ItemRaise(i, e) ==
  /\ serr' = e
  /\ slog' = Append(slog, [ev |-> "raise", item |-> i])
  /\ spc' = "raised"
  /\ UNCHANGED <<sout, sidx>>

\* predict on item i ends with out = [history, invoked, err].
PredictEnd(i, out) ==
  /\ sconvs' = [sconvs EXCEPT ![i] = out.history]
  /\ IF out.err = NoneV THEN ItemReturn(i, out.history) ELSE ItemRaise(i, out.err)
  /\ UNCHANGED <<callVars, batchVars, pollVars, ctorVars, shareVars, sAdapter, spoll>>

Groq_batch_response ==
  /\ sAdapter = "groq" /\ spc = "wait"
  /\ \E r \in BatchGroqResponses :
       PredictEnd(sidx, Groq_predict_outcome(sconvs[sidx], r, BatchToolkit))

Cohere_batch_response ==
  /\ sAdapter = "cohere" /\ spc = "wait"
  /\ \E d \in BatchCohereResponses :
       PredictEnd(sidx, Cohere_predict_outcome(sconvs[sidx], d))

\* generate_image on item i moves to st: its next request, its return or its raise.
GenerateImageStep(i, st) ==
  /\ spoll' = st
  /\ IF st.pc = "returned" THEN ItemReturn(i, st.out.value)
     ELSE IF st.pc = "raised" THEN ItemRaise(i, st.out.value)
     ELSE UNCHANGED <<sout, slog, sidx, spc, serr>>
  /\ UNCHANGED <<callVars, batchVars, pollVars, ctorVars, shareVars, sAdapter, sconvs>>

Fal_batch_submit_answered ==
  /\ sAdapter = "falai" /\ spc = "wait" /\ spoll.pc = "submit"
  /\ \E r \in SubmitResponses :
       GenerateImageStep(sidx, Fal_send_request_returned(spoll, r, max_retries))

Fal_batch_status_answered ==
  /\ sAdapter = "falai" /\ spc = "wait" /\ spoll.pc = "status"
  /\ \E r \in StatusResponses :
       GenerateImageStep(sidx, Fal_check_status_returned(spoll, r, max_retries))

Fal_batch_sleep_over ==
  /\ sAdapter = "falai" /\ spc = "wait" /\ spoll.pc = "sleep"
  /\ GenerateImageStep(sidx, Fal_sleep_returned(spoll, max_retries))

Fal_batch_result_answered ==
  /\ sAdapter = "falai" /\ spc = "wait" /\ spoll.pc = "result"
  /\ \E r \in ResultResponses :
       GenerateImageStep(sidx, Fal_get_result_returned(spoll, r))

\* The input list is exhausted: batch returns the list.
Batch_return ==
  /\ spc = "next" /\ sidx = NItems + 1
  /\ spc' = "returned"
  /\ UNCHANGED <<callVars, batchVars, pollVars, ctorVars, shareVars, sAdapter, sidx, sconvs, sout, slog, serr,
                 spoll>>

SeqNext ==
  \/ \E i \in Items : Batch_call(i)
  \/ Groq_batch_response
  \/ Cohere_batch_response
  \/ Fal_batch_submit_answered
  \/ Fal_batch_status_answered
  \/ Fal_batch_sleep_over
  \/ Fal_batch_result_answered
  \/ Batch_return

InitSeq == SeqInit /\ CallIdle /\ BatchIdle /\ CtorIdle /\ ShareIdle
NextSeq == SeqNext
SpecSeq == InitSeq /\ [][NextSeq]_vars

(***************************************************************************)
(* Properties of batch (SpecSeq).                                          *)
(***************************************************************************)
\* C12: batch makes the single-item calls one at a time in list order: the first
\* call is on item 1, the call on item i+1 comes right after the return of the call
\* on item i, every end of a call comes right after that call was made, and the k-th
\* entry of the output list is the value of the call on the k-th input (for predict,
\* the k-th conversation with its reply appended).
C12_SequentialInListOrder ==
  /\ \A j \in 1..Len(slog) :
       IF slog[j].ev = "call"
       THEN IF j = 1 THEN slog[j].item = 1
            ELSE slog[j - 1] = [ev |-> "return", item |-> slog[j].item - 1]
       ELSE j > 1 /\ slog[j - 1] = [ev |-> "call", item |-> slog[j].item]
  /\ \A k \in 1..Len(sout) :
       /\ sout[k].item = k
       /\ sAdapter # "falai" =>
            /\ sout[k].value = sconvs[k]
            /\ IsPrefix(InitialConv(k), sconvs[k])
            /\ Len(sconvs[k]) > 1
  /\ spc = "returned" => Len(sout) = NItems

C12_Witness ==
  /\ sAdapter = "falai" /\ spc = "returned"
  /\ Len(slog) = 2 * NItems /\ Len(sout) = NItems
  /\ sout[1].value = "url2" /\ sout[2].value = "url1"

\* C18: when a job of a FalAI batch ends with RuntimeError (unexpected status) or
\* TimeoutError, the job of every other prompt has still been submitted and has
\* reached its own outcome once batch has ended.
C18_FailureFatalOnlyForItsJob ==
  (sAdapter = "falai" /\ spc = "raised" /\ serr \in {"RuntimeError", "TimeoutError"}) =>
    \A i \in Items :
      /\ \E j \in 1..Len(slog) : slog[j] = [ev |-> "call", item |-> i]
      /\ \E j \in 1..Len(slog) : slog[j].item = i /\ slog[j].ev \in {"return", "raise"}

(***************************************************************************)
(* Properties of stream / astream (SpecCall).                              *)
(***************************************************************************)
StreamModes == {"stream", "astream"}

\* The records the backend has delivered so far, in delivery order.
StreamRecords == [i \in 1..(Len(resp) - 1) |-> resp[i + 1].line]

\* The text fragment a delivered record carries, if it carries one.
FragmentOf(line) ==
  IF adapter = "groq"
  THEN IF ParseLine(line).kind = "content" THEN <<ParseLine(line).content>> ELSE <<>>
  ELSE IF Cohere_line_truthy(mode, line) /\ Cohere_parse_line(line).kind = "text"
       THEN <<Cohere_parse_line(line).text>> ELSE <<>>

RECURSIVE Fragments(_)
Fragments(records) ==
  IF records = <<>> THEN <<>>
  ELSE FragmentOf(Head(records)) \o Fragments(Tail(records))

RECURSIVE Concat(_)
Concat(strings) == IF strings = <<>> THEN "" ELSE Head(strings) \o Concat(Tail(strings))

Appended == Drop(history, Len(pre))

\* C22: a stream / astream call yields the text fragments in the order the
\* backend delivered them, and once it is fully consumed the assistant message
\* it appended holds the concatenation of exactly the yielded fragments, in order.
C22_FragmentsInOrderAndConcatenated ==
  mode \in StreamModes =>
    /\ yielded = Fragments(StreamRecords)
    /\ pc = "returned" =>
         /\ history[Len(history)].role = "assistant"
         /\ history[Len(history)].content = Concat(yielded)

C22_Witness ==
  /\ adapter = "groq" /\ mode = "astream" /\ pc = "returned"
  /\ yielded = <<"b", "a">>
  /\ history[Len(history)].content = "ba"

AssistantMessages(messages) == SelectSeq(messages, LAMBDA msg : msg.role = "assistant")

\* What the conversation holds when the streaming request is sent: GroqToolModel
\* has run its first response through the tool phase by then.
ToolPhaseHistory ==
  IF adapter = "groq" /\ Len(resp) >= 1 /\ ~Groq_raise_for_status(mode, resp[1].status)
  THEN Groq_tool_response(pre, resp[1], toolkit).history
  ELSE pre

\* C21 as stated: a stream / astream call whose backend stream ends without any
\* text fragment appends exactly one assistant message, with empty content.
C21_ExactlyOneEmptyAssistantMessage ==
  (mode \in StreamModes /\ pc = "returned" /\ yielded = <<>>) =>
    /\ Len(AssistantMessages(Appended)) = 1
    /\ AssistantMessages(Appended)[1].content = ""

\* C21: when the backend stream ends without any text fragment, the exhausted
\* stream still appends exactly one assistant message with empty content, as the
\* last message, after whatever the tool phase of GroqToolModel appended.
C21_EmptyStreamAppendsEmptyMessage ==
  (mode \in StreamModes /\ pc = "returned" /\ yielded = <<>>) =>
    /\ Len(history) = Len(ToolPhaseHistory) + 1
    /\ IsPrefix(ToolPhaseHistory, history)
    /\ history[Len(history)].role = "assistant"
    /\ history[Len(history)].content = ""

C21_Witness ==
  /\ adapter = "groq" /\ mode = "stream" /\ pc = "returned"
  /\ yielded = <<>> /\ nlines = MaxLines
  /\ Len(AssistantMessages(Appended)) = 2
  /\ history[Len(history)].content = ""

\* C23 as stated: before its fragment sequence is exhausted, and after the
\* consumer abandons it, a stream / astream call has appended nothing.
C23_NothingAppendedBeforeExhaustion ==
  (mode \in StreamModes /\ pc # "returned") => history = pre

\* C23: the streamed text is appended only when the fragment sequence is
\* exhausted; while fragments are produced and after the consumer abandons the
\* sequence the conversation is the one before the call followed by nothing but
\* the tool-phase messages of GroqToolModel (none for CohereModel).
C23_StreamedTextOnlyAtExhaustion ==
  mode \in StreamModes =>
    /\ pc \in {"wait2", "reading", "atyield", "closed"} => history = ToolPhaseHistory
    /\ adapter = "cohere" /\ pc # "returned" => history = pre
    /\ pc = "returned" =>
         /\ Len(history) = Len(ToolPhaseHistory) + 1
         /\ IsPrefix(ToolPhaseHistory, history)

C23_Witness ==
  /\ adapter = "groq" /\ mode = "astream" /\ pc = "closed"
  /\ yielded # <<>>
  /\ history = ToolPhaseHistory /\ Len(history) > Len(pre)

Unparseable(line) ==
  IF adapter = "groq" THEN ParseLine(line).kind = "malformed"
  ELSE line # "" /\ Cohere_parse_line(line).kind = "malformed"

\* C24: an unparseable stream record is skipped silently: the parse error is
\* never surfaced and the call goes on with the records that follow.
C24_UnparseableRecordSkipped ==
  (/\ mode \in StreamModes
   /\ \E i \in DOMAIN StreamRecords : Unparseable(StreamRecords[i]))
  => err # "JSONDecodeError"

(***************************************************************************)
(* Properties of the status check and of predict against apredict          *)
(* (SpecCall).                                                             *)
(***************************************************************************)
Non2xx(status) == status < 200 \/ status >= 300

TransportErrors == {"HTTPError", "HTTPStatusError", "Exception"}

\* C27: a non-2xx backend response during predict / apredict / stream / astream
\* is surfaced to the caller as an error and is not retried: the call has made
\* exactly one request when it fails.
C27_Non2xxSurfacedNotRetried ==
  (Len(resp) >= 1 /\ Non2xx(resp[1].status)) =>
    /\ pc = "raised"
    /\ err \in TransportErrors
    /\ Len(requests) = 1

\* What the other method of the pair does with the same conversation and the
\* same backend response: [history, invoked, err].
TwinOutcome ==
  IF adapter = "groq"
  THEN IF mode = "predict" THEN Groq_apredict_outcome(pre, resp[1], toolkit)
       ELSE Groq_predict_outcome(pre, resp[1], toolkit)
  ELSE IF mode = "predict" THEN Cohere_apredict_outcome(pre, resp[1])
       ELSE Cohere_predict_outcome(pre, resp[1])

\* C28: for every conversation and every backend response (status and body),
\* predict and apredict both fail or both succeed, and on success they leave
\* the conversation with the same appended messages in the same order.
C28_ApredictSameAsPredict ==
  (mode \in {"predict", "apredict"} /\ pc \in {"returned", "raised"}) =>
    /\ (pc = "raised") <=> (TwinOutcome.err # NoneV)
    /\ pc = "returned" => history = TwinOutcome.history

(***************************************************************************)
(* Frame of a failed predict / apredict (SpecCall).                        *)
(***************************************************************************)
\* C36: when predict / apredict fails with a transport error (the backend
\* answered with a non-2xx status), the conversation is exactly as it was
\* before the call: no assistant or tool message was appended, no tool ran.
C36_TransportFailureLeavesConversation ==
  (/\ mode \in {"predict", "apredict"}
   /\ pc = "raised" /\ err \in TransportErrors) =>
     /\ resp[1].status # 200
     /\ history = pre
     /\ invoked = <<>>

C36_Witness ==
  /\ adapter = "groq" /\ mode = "apredict" /\ toolkit = Toolkit({"add", "div"})
  /\ pc = "raised" /\ err = "HTTPStatusError"
  /\ resp[1].status = 300
  /\ history = pre /\ Len(pre) = 2

(***************************************************************************)
(* The two phases of GroqToolModel.stream / astream (SpecCall).            *)
(***************************************************************************)
\* C38: GroqToolModel.stream / astream runs two phases in fixed order.  The
\* first request is not streaming and carries the tools; its response goes
\* through the tool-call loop.  The second request is streaming, carries neither
\* tools nor tool_choice, and its message list holds every message the first
\* phase appended.  No fragment is yielded before the second request, that is,
\* before all tool messages of the first phase are in the conversation.  A
\* fully consumed call has made exactly these two requests.
C38_ToolPhaseThenStreamPhase ==
  (adapter = "groq" /\ mode \in StreamModes) =>
    LET first == Drop(ToolPhaseHistory, Len(pre))
    IN  /\ Len(requests) <= 2
        /\ Len(requests) >= 1 =>
             /\ requests[1] = Groq_stream_payload(pre, toolkit)
             /\ requests[1].has_tools /\ ~requests[1].stream
        /\ Len(requests) = 2 =>
             /\ Len(resp) >= 1
             /\ IsPrefix(ToolPhaseHistory, history)
             /\ invoked = Groq_tool_response(pre, resp[1], toolkit).invoked
             /\ Len(invoked) = Len(resp[1].tool_calls)
             /\ requests[2].stream /\ ~requests[2].has_tools
             /\ requests[2].tool_choice = NoKey
             /\ Len(requests[2].messages) = Len(pre) + Len(first)
             /\ \A k \in 1..Len(first) :
                  requests[2].messages[Len(pre) + k] = Groq_format_message(first[k])
        /\ yielded # <<>> => Len(requests) = 2
        /\ pc = "returned" => Len(requests) = 2

C38_Witness ==
  /\ adapter = "groq" /\ mode = "astream" /\ pc = "returned"
  /\ Len(requests) = 2 /\ Len(invoked) = 2 /\ Len(yielded) = 2
  /\ Len(requests[2].messages) = Len(pre) + 3
  /\ requests[2].messages[Len(pre) + 3].role = "tool"

(***************************************************************************)
(* A failing predict inside batch (SpecSeq).                               *)
(***************************************************************************)
\* C39: if predict raises on the k-th conversation of batch, the error leaves
\* batch (no list is returned, no further call is made), every conversation
\* before k keeps the reply appended to it, and every conversation after k has
\* received no request and is as it was handed in.
C39_BatchStopsAtFirstFailure ==
  (sAdapter \in {"groq", "cohere"} /\ serr # NoneV) =>
    LET k == sidx
    IN  /\ spc = "raised"
        /\ slog[Len(slog)] = [ev |-> "raise", item |-> k]
        /\ \A j \in 1..(k - 1) :
             /\ \E n \in 1..Len(slog) : slog[n] = [ev |-> "return", item |-> j]
             /\ IsPrefix(InitialConv(j), sconvs[j])
             /\ Len(sconvs[j]) > 1
             /\ sconvs[j] = sout[j].value
        /\ \A j \in (k + 1)..NItems :
             /\ \A n \in 1..Len(slog) : slog[n].item # j
             /\ sconvs[j] = InitialConv(j)

C39_Witness ==
  /\ sAdapter = "groq" /\ spc = "raised" /\ serr = "HTTPError" /\ sidx = 2
  /\ Len(sconvs[1]) = 2 /\ sconvs[2] = InitialConv(2) /\ sconvs[3] = InitialConv(3)

(***************************************************************************)
(* What a Cohere request carries of the conversation (SpecCall).           *)
(***************************************************************************)
\* The content of the last message of hist with the given role, None if there is
\* no such message.
LastContent(hist, role) ==
  LET at == {i \in 1..Len(hist) : hist[i].role = role}
  IN  IF at = {} THEN NoneV
      ELSE hist[CHOOSE i \in at : \A j \in at : j <= i].content

\* What _format_messages is claimed to return for every history.
FormatsToLatest(hist) ==
  LET f == Cohere_format_messages(hist)
  IN  /\ f.chat_history = <<>>
      /\ f.system_message = LastContent(hist, "system")
      /\ f.user_message = LastContent(hist, "human")

Classes == {"GroqToolModel", "CohereModel", "FalAIImgGenModel"}

allowed_models(c) ==
  CASE c = "GroqToolModel" ->
         {"llama3-8b-8192", "llama3-70b-8192", "llama3-groq-70b-8192-tool-use-preview",
          "llama3-groq-8b-8192-tool-use-preview", "llama-3.1-70b-versatile",
          "llama-3.1-8b-instant"}
    [] c = "CohereModel" ->
         {"command", "command-r-plus-08-2024", "command-r-plus-04-2024",
          "command-r-03-2024", "command-r-08-2024", "command-light"}
    [] OTHER -> {"fal-ai/flux-pro", "fal-ai/flux-pro/new", "fal-ai/flux-pro/v1.1"}

\* The value a field takes when its keyword is not passed; NoKey: the field is
\* required, or the class has no such field.
FieldDefault(c, field, env) ==
  CASE field = "name" ->
         (CASE c = "GroqToolModel" -> "llama3-groq-70b-8192-tool-use-preview"
            [] c = "CohereModel" -> "command"
            [] OTHER -> NoneV)
    [] field = "model_name" -> IF c = "FalAIImgGenModel" THEN "fal-ai/flux-pro" ELSE NoKey
    [] OTHER -> IF c = "FalAIImgGenModel" THEN (IF env = NoKey THEN NoneV ELSE env)
                ELSE NoKey

FieldValue(c, data, field, env) ==
  IF data[field] # NoKey THEN data[field] ELSE FieldDefault(c, field, env)

\* Python truth value of an optional string.
Truthy(value) == value \notin {NoneV, NoKey, ""}

CtorNames == {NoKey, "", "bogus", "command", "llama3-8b-8192"}
CtorModelNames == {NoKey, "", "bogus", "fal-ai/flux-pro/new"}
CtorApiKeys == {NoKey, "", "k1"}
CtorEnvirons == {NoKey, "envkey"}

\* The private attributes _client and _async_client before they are set.
NoClients == [sync |-> "none", async |-> "none"]

CtorInit ==
  /\ cls \in Classes
  /\ kwargs \in [name : CtorNames, model_name : CtorModelNames, api_key : CtorApiKeys]
  /\ environ \in CtorEnvirons
  /\ cpc = "called"
  /\ instance = <<>>
  /\ cerr = NoneV
  /\ start_environ = environ
  /\ clients = NoClients
  /\ earlier = <<>>

CtorRaise(e) ==
  /\ cpc' = "raised"
  /\ cerr' = e

\* super().__init__, first part: pydantic checks the keywords against
\* the fields and fills in the defaults (a default is not validated).  A keyword
\* that names no field (extra="forbid") or a required field without its keyword
\* is a ValidationError.
Ctor_validate_fields ==
  /\ cpc = "called"
  /\ IF \/ cls # "FalAIImgGenModel" /\ kwargs.model_name # NoKey
        \/ \E field \in {"name", "api_key"} :
             kwargs[field] = NoKey /\ FieldDefault(cls, field, NoKey) = NoKey
     THEN CtorRaise("ValidationError") /\ UNCHANGED instance
     ELSE /\ instance' = [name |-> FieldValue(cls, kwargs, "name", environ),
                          model_name |-> FieldValue(cls, kwargs, "model_name", environ),
                          api_key |-> FieldValue(cls, kwargs, "api_key", environ),
                          authorization |-> NoKey]
          /\ cpc' = "fields"
          /\ UNCHANGED cerr
  /\ UNCHANGED <<callVars, batchVars, pollVars, seqVars, shareVars, cls, kwargs, environ, start_environ, clients, earlier>>

\* if name and name not in allowed_models: raise ValueError
NameRejected(c, name) == Truthy(name) /\ name \notin allowed_models(c)

\* super().__init__, second part: LLMBase._validate_name_in_allowed_models.
Ctor_validate_name ==
  /\ cpc = "fields"
  /\ IF NameRejected(cls, instance.name)
     THEN CtorRaise("ValidationError")
     ELSE cpc' = "validated" /\ UNCHANGED cerr
  /\ UNCHANGED <<callVars, batchVars, pollVars, seqVars, shareVars, cls, kwargs, environ, instance, start_environ, clients, earlier>>

\* The body of GroqToolModel.__init__ and CohereModel.__init__: the headers.
Ctor_bearer_headers ==
  /\ cpc = "validated" /\ cls \in {"GroqToolModel", "CohereModel"}
  /\ instance' = [instance EXCEPT !.authorization = "Bearer " \o instance.api_key]
  /\ cpc' = "constructed"
  /\ UNCHANGED <<callVars, batchVars, pollVars, seqVars, shareVars, cls, kwargs, environ, cerr, start_environ, clients, earlier>>

\* The body of FalAIImgGenModel.__init__: FAL_KEY is set from a truthy api_key,
\* model_name is checked, the two clients get the headers.
Ctor_fal_body ==
  /\ cpc = "validated" /\ cls = "FalAIImgGenModel"
  /\ environ' = IF Truthy(instance.api_key) THEN instance.api_key ELSE environ
  /\ IF instance.model_name \notin allowed_models(cls)
     THEN CtorRaise("ValueError") /\ UNCHANGED <<instance, clients>>
     ELSE /\ instance' = [instance EXCEPT !.authorization = "Key " \o instance.api_key]
          /\ clients' = [sync |-> "open", async |-> "open"]
          /\ cpc' = "constructed"
          /\ UNCHANGED cerr
  /\ UNCHANGED <<callVars, batchVars, pollVars, seqVars, shareVars, cls, kwargs, start_environ, earlier>>

\* FalAIImgGenModel.__del__, with or without a running event loop.  A private
\* attribute that was never set raises AttributeError at self._client;
\* asyncio.run raises RuntimeError inside a running loop, before aclose() runs.
Fal_del(running) ==
  /\ cls = "FalAIImgGenModel" /\ cpc \in {"constructed", "raised"}
  /\ cpc' = "deleted"
  /\ IF clients.sync = "none"
     THEN clients' = clients /\ cerr' = "AttributeError"
     ELSE IF clients.async # "closed" /\ running
     THEN clients' = [clients EXCEPT !.sync = "closed"] /\ cerr' = "RuntimeError"
     ELSE clients' = [sync |-> "closed", async |-> "closed"] /\ cerr' = NoneV
  /\ UNCHANGED <<callVars, batchVars, pollVars, seqVars, shareVars, cls, kwargs, environ,
                 instance, start_environ, earlier>>

Fal_del_called == \E running \in BOOLEAN : Fal_del(running)

\* The program constructs one more adapter in the same process: os.environ is
\* what the earlier constructor left.
Ctor_again ==
  /\ cpc \in {"constructed", "raised", "deleted"} /\ earlier = <<>>
  /\ earlier' = <<[cls |-> cls, kwargs |-> kwargs, api_key |-> IF instance = <<>> THEN NoKey ELSE instance.api_key]>>
  /\ cls' \in Classes
  /\ kwargs' \in [name : {NoKey}, model_name : {NoKey, "bogus"}, api_key : CtorApiKeys]
  /\ cpc' = "called"
  /\ instance' = <<>>
  /\ cerr' = NoneV
  /\ clients' = NoClients
  /\ UNCHANGED <<callVars, batchVars, pollVars, seqVars, shareVars, environ, start_environ>>

CtorNext ==
  \/ Ctor_validate_fields
  \/ Ctor_validate_name
  \/ Ctor_bearer_headers
  \/ Ctor_fal_body
  \/ Fal_del_called
  \/ Ctor_again

InitCtor == CtorInit /\ CallIdle /\ BatchIdle /\ PollIdle /\ SeqIdle /\ ShareIdle
NextCtor == CtorNext
SpecCtor == InitCtor /\ [][NextCtor]_vars

\* The model name the constructed adapter sends to its backend.
ConfiguredModel ==
  IF cls = "FalAIImgGenModel" THEN instance.model_name ELSE instance.name

\* C25: no adapter instance exists at the end of construction whose model name
\* is outside allowed_models: construction fails for every such name.
C25_ModelNameOutsideAllowedFails ==
  cpc = "constructed" => ConfiguredModel \in allowed_models(cls)

\* C26: constructing an adapter without a credential (no api_key argument and,
\* for FalAIImgGenModel, no FAL_KEY in the environment) fails at construction.
C26_MissingCredentialFails ==
  (/\ cls \in Classes
   /\ kwargs.api_key = NoKey
   /\ cls = "FalAIImgGenModel" => environ = NoKey)
  => cpc # "constructed"

Tasks == 1..MaxConcurrent

ShareToolkit == Toolkit({"add"})

ShareResponses ==
  {[status |-> 200, content |-> "hi", tool_calls |-> <<>>],
   [status |-> 200, content |-> "hi",
    tool_calls |-> <<ToolCall(1, "add", "{a:4,b:2}"), ToolCall(2, "add", "{a:4,b:2}")>>],
   [status |-> 200, content |-> NoneV,
    tool_calls |-> <<ToolCall(1, "add", "{a:4,b:2}"), ToolCall(2, "ghost", "{a:4,b:2}")>>],
   [status |-> 500, content |-> NoKey, tool_calls |-> <<>>]}

ShareInit ==
  /\ conversation = <<HumanMessage("q")>>
  /\ owner = <<>>
  /\ task_op = [t \in Tasks |-> "none"]
  /\ task_pc = [t \in Tasks |-> "idle"]
  /\ task_resp = [t \in Tasks |-> <<>>]

\* The tasks are alike: they make their calls in the order of their numbers.
MayCall(t) == task_pc[t] = "idle" /\ (IF t = 1 THEN TRUE ELSE task_op[t - 1] # "none")

\* What a call has appended, with the task set down for every message.
Owned(t, before, after) == owner \o [i \in 1..(Len(after) - Len(before)) |-> t]

\* apredict up to its first await: the payload is built and posted.
Share_apredict_call(t) ==
  /\ MayCall(t)
  /\ task_op' = [task_op EXCEPT ![t] = "apredict"]
  /\ task_pc' = [task_pc EXCEPT ![t] = "posting"]
  /\ UNCHANGED <<callVars, batchVars, pollVars, seqVars, ctorVars, conversation, owner, task_resp>>

\* The response arrives: raise_for_status, then the client is closed, which is
\* the last await of apredict.
Share_apredict_response(t, r) ==
  /\ task_pc[t] = "posting"
  /\ task_resp' = [task_resp EXCEPT ![t] = <<r>>]
  /\ task_pc' = [task_pc EXCEPT ![t] =
                   IF Httpx_raise_for_status(r.status) THEN "raised" ELSE "closing"]
  /\ UNCHANGED <<callVars, batchVars, pollVars, seqVars, ctorVars, conversation, owner, task_op>>

\* Mutant: the task is suspended again after each tool invocation.
Share_apredict_resume_awaiting(t) ==
  /\ task_pc[t] = "closing"
  /\ LET r == task_resp[t][1]
         more == Len(r.tool_calls) > 1
         now == IF more THEN [r EXCEPT !.tool_calls = <<Head(r.tool_calls)>>] ELSE r
         out == Groq_tool_response(conversation, now, ShareToolkit)
     IN  /\ conversation' = out.history
         /\ owner' = Owned(t, conversation, out.history)
         /\ IF out.err = NoneV /\ more
            THEN /\ task_resp' = [task_resp EXCEPT ![t] =
                        <<[r EXCEPT !.content = NoKey, !.tool_calls = Tail(r.tool_calls)]>>]
                 /\ UNCHANGED task_pc
            ELSE /\ task_pc' = [task_pc EXCEPT ![t] =
                        IF out.err # NoneV THEN "raised" ELSE "returned"]
                 /\ UNCHANGED task_resp
  /\ UNCHANGED <<callVars, batchVars, pollVars, seqVars, ctorVars, task_op>>

\* The task runs again: response.json(), the assistant message and the whole
\* tool-call loop, up to the return, with no await in between.
Share_apredict_resume(t) ==
  /\ task_pc[t] = "closing"
  /\ LET out == Groq_tool_response(conversation, task_resp[t][1], ShareToolkit)
     IN  /\ conversation' = out.history
         /\ owner' = Owned(t, conversation, out.history)
         /\ task_pc' = [task_pc EXCEPT ![t] =
                          IF out.err # NoneV THEN "raised" ELSE "returned"]
  /\ UNCHANGED <<callVars, batchVars, pollVars, seqVars, ctorVars, task_op, task_resp>>

\* predict: the task does not leave the processor between call and return.
Share_predict(t, r) ==
  /\ MayCall(t)
  /\ task_op' = [task_op EXCEPT ![t] = "predict"]
  /\ task_resp' = [task_resp EXCEPT ![t] = <<r>>]
  /\ LET out == Groq_predict_outcome(conversation, r, ShareToolkit)
     IN  /\ conversation' = out.history
         /\ owner' = Owned(t, conversation, out.history)
         /\ task_pc' = [task_pc EXCEPT ![t] =
                          IF out.err # NoneV THEN "raised" ELSE "returned"]
  /\ UNCHANGED <<callVars, batchVars, pollVars, seqVars, ctorVars>>

Share_apredict_called == \E t \in Tasks : Share_apredict_call(t)
Share_apredict_answered == \E t \in Tasks, r \in ShareResponses : Share_apredict_response(t, r)
Share_apredict_resumed == \E t \in Tasks : Share_apredict_resume(t)
Share_predict_called == \E t \in Tasks, r \in ShareResponses : Share_predict(t, r)

ShareNext ==
  \/ Share_apredict_called
  \/ Share_apredict_answered
  \/ Share_apredict_resumed
  \/ Share_predict_called

InitShare == ShareInit /\ CallIdle /\ BatchIdle /\ PollIdle /\ SeqIdle /\ CtorIdle
NextShare == ShareNext
SpecShare == InitShare /\ [][NextShare]_vars

\* The appended messages, each with the task that appended it.
OwnedMessages ==
  [i \in DOMAIN owner |->
     [task |-> owner[i], msg |-> conversation[Len(conversation) - Len(owner) + i]]]

MessagesOf(t) == SelectSeq(OwnedMessages, LAMBDA p : p.task = t)

\* The messages of task t are next to each other in the conversation.
Contiguous(t) ==
  \A i, j, k \in DOMAIN owner : (i < j /\ j < k /\ owner[i] = t /\ owner[k] = t) => owner[j] = t

\* What one backend response makes the tool-call loop append.
ResponseMessages(r) == Groq_tool_response(<<>>, r, ShareToolkit).history

\* C30: in apredict (also as an item of abatch) the assistant message and all
\* tool messages of one backend response are appended in one uninterrupted
\* step: nothing of them is in the conversation while the task is suspended,
\* and no message of another task sharing the conversation lies between them.
C30_ToolLoopUninterrupted ==
  \A t \in Tasks : task_op[t] = "apredict" =>
    /\ Contiguous(t)
    /\ task_pc[t] \in {"posting", "closing"} => MessagesOf(t) = <<>>
    /\ (task_pc[t] \in {"returned", "raised"}
        /\ ~Httpx_raise_for_status(task_resp[t][1].status)) =>
         MessagesOf(t) =
           [i \in DOMAIN ResponseMessages(task_resp[t][1]) |->
              [task |-> t, msg |-> ResponseMessages(task_resp[t][1])[i]]]

C30_Witness ==
  /\ task_op = [t \in Tasks |-> "apredict"]
  /\ \A t \in Tasks : task_pc[t] = "returned" /\ Len(MessagesOf(t)) = 3
  /\ owner[1] = MaxConcurrent

(***************************************************************************)
(* Properties of the instance's credential and clients (SpecCtor).         *)
(***************************************************************************)
\* C31: constructing one FalAIImgGenModel never determines the credential of
\* another instance: an instance constructed afterwards without an api_key
\* argument has the credential the process environment held at its start.
C31_CredentialNotShared ==
  (/\ cls = "FalAIImgGenModel" /\ cpc = "constructed"
   /\ earlier # <<>>
   /\ kwargs.api_key = NoKey)
  => instance.api_key = FieldDefault(cls, "api_key", start_environ)

\* C32: after the teardown of a FalAIImgGenModel (__del__) none of its HTTP
\* clients is left open, whether construction had failed before the clients
\* were created or an event loop is running.
C32_TeardownClosesClients ==
  (cls = "FalAIImgGenModel" /\ cpc = "deleted") =>
    clients.sync # "open" /\ clients.async # "open"

(***************************************************************************)
(* Termination and request discipline of the job poller (SpecPollFair).    *)
(***************************************************************************)
\* Every request the poller waits on is answered and every sleep ends.
SpecPollFair == SpecPoll /\ WF_vars(NextPoll)

PollOutcomes == {"TimeoutError", "RuntimeError", "HTTPStatusError"}

\* C33: every run of the job poller terminates: it reaches one outcome (a
\* returned result, the unexpected-status error, the timeout or a transport
\* error) after at most max_retries status queries, and once it has ended it
\* issues no further request and keeps that outcome.
C33_PollerTerminates ==
  /\ <>(\A m \in PollModes : PollEnded(m))
  /\ [](\A m \in PollModes :
          /\ Issued(m, "status") <= max_retries
          /\ (PollEnded(m) /\ Polled(m)) =>
               \/ poll[m].pc = "returned" /\ poll[m].out.kind = "ok"
               \/ poll[m].pc = "raised" /\ poll[m].out.value \in PollOutcomes)
  /\ [][\A m \in PollModes : PollEnded(m) => poll'[m] = poll[m]]_vars

C33_Witness ==
  /\ max_retries = MaxRetries
  /\ \A m \in PollModes :
       /\ PollEnded(m) /\ Polled(m)
       /\ poll[m].out.value = "TimeoutError"
       /\ Issued(m, "status") = MaxRetries

\* The number of status queries among the first j requests of the log.
StatusQueriesUpTo(m, j) == Cardinality({i \in 1..j : poll[m].log[i].op = "status"})

\* C34: within one poll run the result endpoint is queried at most once, and
\* only right after a status query of the same job was answered COMPLETED:
\* never after a non-terminal status, an unexpected status or a timeout.
C34_ResultFetchedOnlyAfterCompleted ==
  \A m \in PollModes :
    /\ Issued(m, "result") <= 1
    /\ \A j \in 1..Len(poll[m].log) : poll[m].log[j].op = "result" =>
         /\ j > 1
         /\ poll[m].log[j - 1].op = "status"
         /\ poll[m].log[j - 1].id = poll[m].log[j].id
         /\ StatusQueriesUpTo(m, j) \in 1..Len(script.statuses)
         /\ script.statuses[StatusQueriesUpTo(m, j)].http = 200
         /\ script.statuses[StatusQueriesUpTo(m, j)].status = "COMPLETED"

C34_Witness ==
  /\ poll["async"].pc = "returned"
  /\ Issued("async", "status") = 2 /\ Issued("async", "sleep") = 1
  /\ Issued("async", "result") = 1
  /\ poll["async"].log[Len(poll["async"].log)].op = "result"

\* C37: the bounded retry covers non-terminal statuses only: a transport
\* failure of a status query or of the fetch of the result ends the poll at
\* once with that error, with no wait and no further status query after it.
C37_TransportFailureEndsPoll ==
  \A m \in PollModes :
    /\ \A k \in 1..Len(script.statuses) :
         (/\ Polled(m) /\ poll[m].passes + 1 >= k /\ poll[m].pc # "status"
          /\ \A j \in 1..(k - 1) : NonTerminal(script.statuses[j])
          /\ Httpx_raise_for_status(script.statuses[k].http)) =>
           /\ poll[m].pc = "raised"
           /\ poll[m].out.value = "HTTPStatusError"
           /\ Issued(m, "status") = k
           /\ Issued(m, "sleep") = k - 1
           /\ Issued(m, "result") = 0
           /\ poll[m].log[Len(poll[m].log)].op = "status"
    /\ (/\ PollEnded(m) /\ Issued(m, "result") = 1
        /\ Httpx_raise_for_status(script.result[1].http)) =>
           /\ poll[m].pc = "raised"
           /\ poll[m].out.value = "HTTPStatusError"
           /\ poll[m].log[Len(poll[m].log)].op = "result"

C37_Witness ==
  /\ poll["sync"].pc = "raised" /\ poll["sync"].out.value = "HTTPStatusError"
  /\ Issued("sync", "status") = 2 /\ Issued("sync", "sleep") = 1
  /\ poll["sync"].log[Len(poll["sync"].log)].op = "status"
  /\ poll["async"].pc = "raised" /\ poll["async"].out.value = "HTTPStatusError"

(***************************************************************************)
(* Progress of abatch (SpecBatchFair).                                     *)
(***************************************************************************)
\* The steps of the task of item i while nobody cancels the batch.
TaskStep(i) ==
  \/ TaskStart(i) \/ TaskAdmit(i)
  \/ Groq_abatch_response(i) \/ Cohere_abatch_response(i)
  \/ Fal_abatch_submitted(i) \/ Fal_abatch_status(i)
  \/ Fal_abatch_slept(i) \/ Fal_abatch_result(i)

\* abatch awaited to its end: the caller is never cancelled.
NextBatchAwaited == \E i \in Items : TaskStep(i)

\* Fair scheduling: a task that can run does run, and every request a task has
\* made is answered.
SpecBatchFair ==
  InitBatch /\ [][NextBatchAwaited]_vars /\ \A i \in Items : WF_vars(TaskStep(i))

\* C35: with a ceiling of at least one slot, every call ending and fair
\* scheduling, abatch makes progress: from some point on every item has been
\* admitted through the gate and has ended, and abatch has returned or raised;
\* so no item waits on the gate forever.
C35_AbatchMakesProgress ==
  <>[](/\ \A i \in Items : tpc[i] \in {"done", "raised"}
       /\ gather.state \in {"returned", "raised"})

C35_Witness ==
  /\ max_concurrent = 1 /\ Len(order) = NItems
  /\ \A i \in Items : tpc[i] \in {"done", "raised"}
  /\ gather.state = "raised"
  /\ semaphore = max_concurrent



====
